---- MODULE Spec2Model ----
(***************************************************************************)
(* A model of the document-processing pipeline of TexteVerarbeiten:        *)
(*   - PDFDispatcher (src/src/core/dispatcher.py): routing, execution and  *)
(*     the Zotero queue, with ZoteroClient (src/src/core/zotero_client.py) *)
(*     and NougatProcessor (src/src/formulas/nougat_processor.py);         *)
(*   - AdaptiveTextChunker (src/src/text/chunking.py).                     *)
(* Texts are sequences of one-character strings.  Confidences are in       *)
(* hundredths (0.95 is 95).  A Python call that may raise is a record      *)
(* [raised, msg, ...]: msg is str(e) of the exception.                     *)
(***************************************************************************)
EXTENDS Integers, Sequences, FiniteSets, TLC

VARIABLES
    engines_available,   \* PDFDispatcher.engines_available: engine -> BOOLEAN
    zotero_client,       \* PDFDispatcher.zotero_client is not None
    extract_pdf_loaded,  \* dispatcher.extract_pdf is not None (the import worked)
    pc,                  \* position of the caller of the dispatcher's API
    call,                \* arguments and environment of the call in progress
    route,               \* what analyze_document returned (or that it raised)
    result,              \* what process_document returned (or that it raised)
    qpc,                 \* position inside process_zotero_queue
    items,               \* the items pulled by get_items_to_process
    idx,                 \* number of items the loop has finished
    results,             \* the list process_zotero_queue builds and returns
    marks,               \* mark_as_processed / mark_as_error calls made so far
    tmp_processing,      \* files present in the directory tmp_processing
    ck,                  \* the state of one AdaptiveTextChunker.chunk call
    ex,                  \* one extract_formulas_from_md call and what it returned
    fx,                  \* the formula directories and the extract_all_formulas run
    ix,                  \* the catalog log, the index database and the index build
    sx,                  \* the index database at search time and one search call
    dx,                  \* the scanned files and one call of the duplicate finders
    px,                  \* the PDF batch and the extract_all_pdfs run
    zx                   \* the tags of the Zotero items across queue runs

vars == <<engines_available, zotero_client, extract_pdf_loaded, pc, call, route,
          result, qpc, items, idx, results, marks, tmp_processing, ck, ex, fx, ix,
          sx, dx, px, zx>>

dispatcherConfig == <<engines_available, zotero_client, extract_pdf_loaded>>
apiVars == <<pc, call, route, result>>
queueVars == <<qpc, items, idx, results, marks, tmp_processing>>
formulaVars == <<ex, fx, ix>>
toolVars == <<sx, dx, px, zx>>

----------------------------------------------------------------------------
(* Bounds of the model *)

\* Pages of a document (PyMuPDF, Tesseract).
MaxPages == 2

\* Items one process_zotero_queue call pulls (max_items).
MaxItems == 2

\* Pages of a document attached to a queue item.
MaxQueuePages == 1

\* Pieces a markdown text handed to extract_formulas_from_md is made of.
MaxSegments == 3

\* extract_all_formulas runs on one markdown directory.
MaxRuns == 2

\* Lines of the catalog log create_formula_index reads.
MaxCatalogLines == 3

\* create_formula_index runs on one index database.
MaxBuilds == 2

\* The largest `limit` a search is called with.
MaxLimit == 2

\* Files handed to find_duplicate_hashes.
MaxFiles == 3

\* The bytes of a file that file_hash reads (max_bytes, scaled down).
PrefixBytes == 1

\* Names handed to find_similar_names.
MaxNames == 6

\* PDFs found by iter_pdfs for one extract_all_pdfs run.
MaxPdfs == 2

\* Worker threads of the pool of extract_all_pdfs.
MaxWorkers == 2

\* Items of the Zotero library whose tags are followed.
MaxTagItems == 2

\* Characters of a text handed to AdaptiveTextChunker.chunk.
MaxTextLen == 4

\* Largest base_chunk_size / max_chunk_size of a chunker configuration.
MaxChunkSize == 3

(* Program constants *)

\* len(sample_text.strip()) > 100
MinTextLen == 100

----------------------------------------------------------------------------
(* Python values *)

\* None, where the code passes None for an optional string
None == "<None>"

Whitespace == {" ", "\n", "\t", "\r"}

Rep(c, n) == [i \in 1..n |-> c]

\* str.strip(): without leading and trailing whitespace
strip(s) ==
    LET nz == {i \in 1..Len(s) : s[i] \notin Whitespace} IN
    IF nz = {} THEN <<>>
    ELSE SubSeq(s, CHOOSE i \in nz : \A j \in nz : i <= j,
                   CHOOSE i \in nz : \A j \in nz : j <= i)

\* sep.join(parts)
RECURSIVE join(_, _)
join(sep, parts) ==
    IF parts = <<>> THEN <<>>
    ELSE IF Len(parts) = 1 THEN parts[1]
    ELSE parts[1] \o sep \o join(sep, Tail(parts))

\* the filter "if t.strip()" of a list comprehension or loop
RECURSIVE NonBlank(_)
NonBlank(parts) ==
    IF parts = <<>> THEN <<>>
    ELSE IF strip(parts[1]) # <<>> THEN <<parts[1]>> \o NonBlank(Tail(parts))
    ELSE NonBlank(Tail(parts))

\* str(e) of the exceptions the environment raises: an exception built
\* without arguments, such as MemoryError(), has the empty message
ExcMsgs == {"", "engine error"}

TextOk(t) == [raised |-> FALSE, msg |-> "", text |-> t]
TextRaise(m) == [raised |-> TRUE, msg |-> m, text |-> <<>>]

----------------------------------------------------------------------------
(* Engines and routes *)

PYMUPDF == "pymupdf"
TESSERACT == "tesseract"
NOUGAT == "nougat"
MATHPIX == "mathpix"

\* ProcessingEngine, in declaration order (the order engines_available is built in)
ProcessingEngine == <<PYMUPDF, TESSERACT, NOUGAT, MATHPIX>>
Engines == {ProcessingEngine[i] : i \in 1..Len(ProcessingEngine)}

ERROR_NO_ENGINE_AVAILABLE == "No processing engine available"

DocumentRoute(e, c, r) == [engine |-> e, confidence |-> c, reason |-> r]

\* "return None" of the Optional[DocumentRoute] helpers
NoRoute == [engine |-> "none", confidence |-> 0, reason |-> ""]

RouteOk(r) == [raised |-> FALSE, msg |-> "", route |-> r]
RouteRaise(m) == [raised |-> TRUE, msg |-> m, route |-> NoRoute]

scientific_tags == {"#scientific", "#math_heavy", "#journal_article",
                    "#formulas", "#equations", "#latex", "#research_paper"}

----------------------------------------------------------------------------
(* Text-layer extraction *)

\* A PDF as PyMuPDF sees it: fitz.open raises, or the pages' text layers.
PageTexts == {<<>>, <<" ">>, Rep("a", MinTextLen), <<" ">> \o Rep("a", MinTextLen),
              Rep("a", MinTextLen + 1)}

RECURSIVE SeqsUpTo(_, _)
SeqsUpTo(S, n) ==
    IF n = 0 THEN {<<>>}
    ELSE LET shorter == SeqsUpTo(S, n - 1) IN
         shorter \cup {Append(s, x) : s \in {t \in shorter : Len(t) = n - 1}, x \in S}

PdfsUpTo(n) ==
    {[kind |-> "raise", msg |-> m, pages |-> <<>>] : m \in ExcMsgs}
    \cup {[kind |-> "pages", msg |-> "", pages |-> p] : p \in SeqsUpTo(PageTexts, n)}

Pdfs == PdfsUpTo(MaxPages)

\* PYMUPDF_AVAILABLE is false at least when the fitz module cannot be found.
extract_text_pymupdf(pdf) ==
    IF ~engines_available[PYMUPDF]
    THEN TextRaise("PyMuPDF (fitz) not available. Install with: pip install PyMuPDF")
    ELSE IF pdf.kind = "raise" THEN TextRaise(pdf.msg)
    ELSE TextOk(join(<<"\n">>, NonBlank(pdf.pages)))

extract_pdf(pdf) ==
    LET text == extract_text_pymupdf(pdf) IN
    IF text.raised THEN text
    ELSE TextOk(IF strip(text.text) # <<>> THEN text.text ELSE <<>>)

----------------------------------------------------------------------------
(* Zotero item metadata, as analyze_document's tag lookup sees it *)

\* the client's get_item_metadata raises (a client other than ZoteroClient);
\* ZoteroClient caught an API error and returned its error dict (no 'tags');
\* or the item's tags
Lookups == {[kind |-> "raise", msg |-> m, tags |-> {}] : m \in ExcMsgs}
           \cup {[kind |-> "api_error", msg |-> "", tags |-> {}]}
           \cup {[kind |-> "item", msg |-> "", tags |-> t] :
                    t \in {{}, {"/to_process"}, {"/to_process", "#latex"}}}

\* zotero_item_key: None or an item key
ItemKeyArgs == {None, "ITEM1"}

get_item_metadata(lookup) ==
    IF lookup.kind = "raise" THEN [raised |-> TRUE, msg |-> lookup.msg, tags |-> {}]
    ELSE IF lookup.kind = "api_error" THEN [raised |-> FALSE, msg |-> "", tags |-> {}]
    ELSE [raised |-> FALSE, msg |-> "", tags |-> lookup.tags]

----------------------------------------------------------------------------
(* PDFDispatcher.analyze_document *)

\* _try_pymupdf_extraction without its "except Exception"
_try_pymupdf_extraction_unguarded(pdf) ==
    IF ~engines_available[PYMUPDF] THEN RouteOk(NoRoute)
    ELSE IF ~extract_pdf_loaded THEN RouteOk(NoRoute)
    ELSE LET sample_text == extract_pdf(pdf) IN
         IF sample_text.raised THEN RouteRaise(sample_text.msg)
         ELSE IF sample_text.text # <<>> /\ Len(strip(sample_text.text)) > MinTextLen
              THEN RouteOk(DocumentRoute(PYMUPDF, 95,
                       "Text-based PDF with sufficient extractable content"))
              ELSE RouteOk(NoRoute)

_try_pymupdf_extraction(pdf) ==
    IF ~engines_available[PYMUPDF] THEN RouteOk(NoRoute)
    ELSE IF ~extract_pdf_loaded THEN RouteOk(NoRoute)
    ELSE LET sample_text == extract_pdf(pdf) IN
         IF sample_text.raised THEN RouteOk(NoRoute)        \* except Exception
         ELSE IF sample_text.text # <<>> /\ Len(strip(sample_text.text)) > MinTextLen
              THEN RouteOk(DocumentRoute(PYMUPDF, 95,
                       "Text-based PDF with sufficient extractable content"))
              ELSE RouteOk(NoRoute)

\* _get_scientific_route asking for the cloud engine first
_get_scientific_route_cloud_first(tags) ==
    IF engines_available[MATHPIX]
    THEN DocumentRoute(MATHPIX, 80, "Scientific document, using cloud API")
    ELSE IF engines_available[NOUGAT]
    THEN DocumentRoute(NOUGAT, 85, "Scientific document with tags")
    ELSE NoRoute

_get_scientific_route(tags) ==
    IF engines_available[NOUGAT]
    THEN DocumentRoute(NOUGAT, 85, "Scientific document with tags")
    ELSE IF engines_available[MATHPIX]
    THEN DocumentRoute(MATHPIX, 80, "Scientific document, using cloud API")
    ELSE NoRoute

_analyze_zotero_tags(zotero_item_key, lookup) ==
    IF ~(zotero_client /\ zotero_item_key # None) THEN RouteOk(NoRoute)
    ELSE LET metadata == get_item_metadata(lookup) IN
         IF metadata.raised THEN RouteOk(NoRoute)           \* except Exception
         ELSE IF metadata.tags \cap scientific_tags # {}
              THEN RouteOk(_get_scientific_route(metadata.tags))
              ELSE RouteOk(NoRoute)

_get_fallback_route ==
    IF engines_available[TESSERACT]
    THEN DocumentRoute(TESSERACT, 70, "Scanned or image-based PDF, using standard OCR")
    ELSE NoRoute

_get_last_resort_route ==
    LET cand == {i \in 1..Len(ProcessingEngine) :
                    engines_available[ProcessingEngine[i]]
                    /\ ProcessingEngine[i] # PYMUPDF} IN
    IF cand # {}
    THEN DocumentRoute(ProcessingEngine[CHOOSE i \in cand : \A j \in cand : i <= j],
                       50, "Fallback (other engines unavailable)")
    ELSE DocumentRoute(PYMUPDF, 0, ERROR_NO_ENGINE_AVAILABLE)

analyze_document(pdf, zotero_item_key, lookup) ==
    LET pymupdf_route == _try_pymupdf_extraction(pdf) IN
    IF pymupdf_route.raised THEN pymupdf_route
    ELSE IF pymupdf_route.route # NoRoute THEN pymupdf_route
    ELSE LET zotero_route == _analyze_zotero_tags(zotero_item_key, lookup) IN
         IF zotero_route.raised THEN zotero_route
         ELSE IF zotero_route.route # NoRoute THEN zotero_route
         ELSE IF _get_fallback_route # NoRoute THEN RouteOk(_get_fallback_route)
         ELSE RouteOk(_get_last_resort_route)

----------------------------------------------------------------------------
(* PDFDispatcher.process_document *)

\* ProcessingResult (metadata and processing_time are left out)
ProcessingResult(s, t, e, m) ==
    [success |-> s, text |-> t, engine_used |-> e, error_message |-> m]

NoResult == ProcessingResult(FALSE, <<>>, "none", None)

ResultOk(r) == [raised |-> FALSE, msg |-> "", result |-> r]
ResultRaise(m) == [raised |-> TRUE, msg |-> m, result |-> NoResult]

Env(k, m, p, t) == [kind |-> k, msg |-> m, pages |-> p, text |-> t]

\* What PyMuPDF does with the document: a Pdfs value, or it never returns.
PyMuPDFEnvs == {Env(p.kind, p.msg, p.pages, <<>>) : p \in Pdfs}
               \cup {Env("hang", "", <<>>, <<>>)}

\* What the Tesseract path meets: a missing import, an exception of fitz, PIL
\* or pytesseract, the OCR text of each page, or an OCR call that never returns.
OcrPageTexts == {<<>>, <<"\n">>, <<"a">>}
TesseractEnvs == {Env("import_error", "No module named 'pytesseract'", <<>>, <<>>)}
                 \cup {Env("raise", m, <<>>, <<>>) : m \in ExcMsgs}
                 \cup {Env("pages", "", p, <<>>) : p \in SeqsUpTo(OcrPageTexts, MaxPages)}
                 \cup {Env("hang", "", <<>>, <<>>)}

\* What the Nougat path meets: a missing import, no processor, no PDF, an
\* output file of an earlier run (readable or not), or the CLI: missing, never
\* returning, failing, writing no file, writing a file, or raising.
MarkdownTexts == {<<>>, <<"\n">>, <<"$", "x", "$">>}
NougatEnvs == {Env(k, "", <<>>, <<>>) :
                  k \in {"import_error", "no_processor", "pdf_missing", "cli_missing",
                         "hang", "cli_rc", "cli_no_output"}}
              \cup {Env(k, "", <<>>, t) :
                  k \in {"cached_mmd", "cached_md", "cli_output"}, t \in MarkdownTexts}
              \cup {Env(k, m, <<>>, <<>>) :
                  k \in {"cached_unreadable", "cli_raise"}, m \in ExcMsgs}

MathpixEnvs == {Env("none", "", <<>>, <<>>)}

EngineEnvs(e) ==
    IF e = PYMUPDF THEN PyMuPDFEnvs
    ELSE IF e = TESSERACT THEN TesseractEnvs
    ELSE IF e = NOUGAT THEN NougatEnvs
    ELSE MathpixEnvs

_process_with_pymupdf(env) ==
    IF ~extract_pdf_loaded THEN ResultRaise("PyMuPDF extraction not available")
    ELSE LET text == extract_pdf(env) IN
         IF text.raised THEN ResultRaise(text.msg)
         ELSE ResultOk(ProcessingResult(strip(text.text) # <<>>, text.text, PYMUPDF, None))

_process_with_tesseract(env) ==
    IF env.kind = "import_error"
    THEN ResultRaise("Tesseract dependencies not available")
    ELSE IF env.kind = "raise" THEN ResultRaise(env.msg)
    ELSE LET text == join(<<"\n", "\n">>, env.pages) IN
         ResultOk(ProcessingResult(strip(text) # <<>>, text, TESSERACT, None))

\* The dict process_pdf returns: success, markdown, and error when it has the key.
NougatDict(s, md, has, err) == [success |-> s, markdown |-> md, has_error |-> has, error |-> err]
DictOk(d) == [raised |-> FALSE, msg |-> "", dict |-> d]
DictRaise(m) == [raised |-> TRUE, msg |-> m, dict |-> NougatDict(FALSE, <<>>, FALSE, "")]

\* NougatProcessor._process_with_cli
_process_with_cli(env) ==
    IF env.kind = "cli_missing" THEN NougatDict(FALSE, <<>>, TRUE, "Nougat CLI not available")
    ELSE IF env.kind = "hang"             \* subprocess.TimeoutExpired
    THEN NougatDict(FALSE, <<>>, TRUE, "Nougat processing timed out (15 minutes)")
    ELSE IF env.kind = "cli_rc" THEN NougatDict(FALSE, <<>>, TRUE, "Nougat CLI error")
    ELSE IF env.kind = "cli_no_output"
    THEN NougatDict(FALSE, <<>>, TRUE, "No markdown output file found")
    ELSE IF env.kind = "cli_raise" THEN NougatDict(FALSE, <<>>, TRUE, env.msg)
    ELSE NougatDict(TRUE, env.text, FALSE, "")

\* NougatProcessor.process_pdf
process_pdf(env) ==
    IF env.kind = "pdf_missing" THEN DictOk(NougatDict(FALSE, <<>>, TRUE, "PDF file not found"))
    ELSE IF env.kind \in {"cached_mmd", "cached_md"}
    THEN DictOk(NougatDict(TRUE, env.text, FALSE, ""))
    ELSE IF env.kind = "cached_unreadable" THEN DictRaise(env.msg)
    ELSE DictOk(_process_with_cli(env))

_process_with_nougat(env) ==
    IF env.kind = "import_error"
    THEN ResultOk(ProcessingResult(FALSE, <<>>, NOUGAT, "Nougat dependencies not available"))
    ELSE IF env.kind = "no_processor"
    THEN ResultOk(ProcessingResult(FALSE, <<>>, NOUGAT, "Nougat processor not available"))
    ELSE LET res == process_pdf(env) IN
         IF res.raised THEN ResultRaise(res.msg)
         ELSE IF res.dict.success
         THEN ResultOk(ProcessingResult(TRUE, res.dict.markdown, NOUGAT, None))
         ELSE ResultOk(ProcessingResult(FALSE, <<>>, NOUGAT,
                  IF res.dict.has_error THEN res.dict.error ELSE "Unknown Nougat error"))

_process_with_mathpix(env) ==
    ResultOk(ProcessingResult(FALSE, <<>>, MATHPIX,
                              "Mathpix API not implemented - use Nougat instead"))

process_document(rt, env) ==
    LET r == IF rt.engine = PYMUPDF THEN _process_with_pymupdf(env)
             ELSE IF rt.engine = TESSERACT THEN _process_with_tesseract(env)
             ELSE IF rt.engine = NOUGAT THEN _process_with_nougat(env)
             ELSE _process_with_mathpix(env) IN
    IF r.raised                                              \* except Exception as e
    THEN ResultOk(ProcessingResult(FALSE, <<>>, rt.engine, r.msg))
    ELSE r

\* The engine is called under a timeout: only the Nougat CLI is
\* (subprocess.run(..., timeout=900)); extract_pdf and the Tesseract loop are
\* plain calls.
EngineCallHasTimeout(e) == e = NOUGAT

----------------------------------------------------------------------------
(* Callers of the dispatcher's API: analyze_document and process_document *)

\* The routes analyze_document builds.
Routes ==
    {DocumentRoute(PYMUPDF, 95, "Text-based PDF with sufficient extractable content"),
     DocumentRoute(NOUGAT, 85, "Scientific document with tags"),
     DocumentRoute(MATHPIX, 80, "Scientific document, using cloud API"),
     DocumentRoute(TESSERACT, 70, "Scanned or image-based PDF, using standard OCR"),
     DocumentRoute(PYMUPDF, 0, ERROR_NO_ENGINE_AVAILABLE)}
    \cup {DocumentRoute(e, 50, "Fallback (other engines unavailable)") :
             e \in Engines \ {PYMUPDF}}

NoPdf == [kind |-> "none", msg |-> "", pages |-> <<>>]
NoLookup == [kind |-> "none", msg |-> "", tags |-> {}]
NoEnv == Env("none", "", <<>>, <<>>)

Call(op, pdf, key, lookup, rt, env) ==
    [op |-> op, pdf |-> pdf, key |-> key, lookup |-> lookup, route |-> rt, env |-> env]

NoCall == Call("none", NoPdf, None, NoLookup, NoRoute, NoEnv)

\* PDFDispatcher.__init__: the availability probes and the optional client
InitDispatcher ==
    /\ engines_available \in [Engines -> BOOLEAN]
    /\ zotero_client \in BOOLEAN
    /\ extract_pdf_loaded \in BOOLEAN

InitApi ==
    /\ pc = "idle"
    /\ call = NoCall
    /\ route = RouteOk(NoRoute)
    /\ result = ResultOk(NoResult)

\* route = dispatcher.analyze_document(pdf_path, zotero_item_key)
AnalyzeDocument ==
    /\ pc = "idle"
    /\ \E pdf \in Pdfs, key \in ItemKeyArgs, lookup \in Lookups :
          /\ call' = Call("analyze", pdf, key, lookup, NoRoute, NoEnv)
          /\ route' = analyze_document(pdf, key, lookup)
    /\ pc' = "analyzed"
    /\ result' = ResultOk(NoResult)
    /\ UNCHANGED <<dispatcherConfig, toolVars, queueVars, ck, formulaVars>>

\* dispatcher.process_document(pdf_path, route) is entered and calls its engine
ProcessDocumentCall ==
    /\ pc = "idle"
    /\ \E rt \in Routes :
          \E env \in EngineEnvs(rt.engine) :
             call' = Call("process", NoPdf, None, NoLookup, rt, env)
    /\ pc' = "running"
    /\ result' = ResultOk(NoResult)
    /\ UNCHANGED <<route, dispatcherConfig, toolVars, queueVars, ck, formulaVars>>

\* The engine of the call in progress responds (it returns or raises).
CanReturn == pc = "running" /\ call.env.kind # "hang"

\* The engine of the call in progress never responds, and its timeout expires.
CanTimeOut ==
    pc = "running" /\ call.env.kind = "hang" /\ EngineCallHasTimeout(call.route.engine)

\* the engine call returns or raises, and process_document returns
EngineReturns ==
    /\ CanReturn
    /\ result' = process_document(call.route, call.env)
    /\ pc' = "returned"
    /\ UNCHANGED <<call, route, dispatcherConfig, toolVars, queueVars, ck, formulaVars>>

\* subprocess.run raises TimeoutExpired after 900 s, and process_document returns
EngineTimesOut ==
    /\ CanTimeOut
    /\ result' = process_document(call.route, call.env)
    /\ pc' = "returned"
    /\ UNCHANGED <<call, route, dispatcherConfig, toolVars, queueVars, ck, formulaVars>>

\* the caller has its answer; the dispatcher is ready for the next call
CallerContinues ==
    /\ pc \in {"analyzed", "returned"}
    /\ pc' = "idle"
    /\ call' = NoCall
    /\ route' = RouteOk(NoRoute)
    /\ result' = ResultOk(NoResult)
    /\ UNCHANGED <<dispatcherConfig, toolVars, queueVars, ck, formulaVars>>

InitQueueIdle ==
    /\ qpc = "idle"
    /\ items = <<>>
    /\ idx = 0
    /\ results = <<>>
    /\ marks = <<>>
    /\ tmp_processing = {}

\* No AdaptiveTextChunker is constructed yet.
NoConfig ==
    [base_chunk_size |-> 0, chunk_overlap |-> 0, max_chunk_size |-> 0,
     large_document_threshold |-> 0, target_chunk_count |-> 0, min_chunk_size |-> 0]

NoChunker ==
    [phase |-> "new", cfg |-> NoConfig, text |-> <<>>, normalized |-> <<>>,
     chunk_size |-> 0, overlap |-> 0, start |-> 0, index |-> 0, chunks |-> <<>>,
     iterations |-> 0]

InitChunkIdle == ck = NoChunker

\* No extract_formulas_from_md call is made.
NoExtraction ==
    [phase |-> "new", name |-> "", deduplicate |-> TRUE, text |-> <<>>,
     calls |-> <<>>, replaced |-> <<>>, formulas |-> <<>>]

\* The summary extract_all_formulas starts with.
NoSummary ==
    [total |-> 0, processed |-> 0, documents_with_formulas |-> 0,
     documents_without_formulas |-> 0, total_formulas |-> 0, errors |-> <<>>]

\* What a finished extract_all_formulas run left behind, and what it ran on
\* (the directory as the run listed it, the argument, what happened to each file).
NoPreviousRun ==
    [markdown_dir |-> {}, deduplicate |-> TRUE, outcomes |-> <<>>,
     metadata_file |-> <<>>, text_dir |-> {}]

\* No markdown file, no output and no extract_all_formulas run.
NoFormulaRun ==
    [phase |-> "new", markdown_dir |-> {}, text_dir |-> {}, metadata_file |-> <<>>,
     deduplicate |-> TRUE, listed |-> {}, md_files |-> <<>>, summary |-> NoSummary,
     runs |-> 0,
     outcomes |-> <<>>, written |-> <<>>, previous |-> NoPreviousRun]

\* The index database: whether the two tables exist, their rows, and the
\* AUTOINCREMENT sequence of formulas.id.
NoDatabase == [tables |-> FALSE, formulas |-> <<>>, tokens |-> <<>>, seq |-> 0]

NoIndexSummary == [total |-> 0, indexed |-> 0, token_mappings |-> 0, errors |-> <<>>]

\* No catalog log, no index database and no create_formula_index run.
NoIndexBuild ==
    [phase |-> "new", exists |-> FALSE, metadata_file |-> <<>>, read |-> 0,
     db |-> NoDatabase, committed |-> NoDatabase, summary |-> NoIndexSummary,
     builds |-> 0]

InitFormulasIdle == ex = NoExtraction /\ fx = NoFormulaRun /\ ix = NoIndexBuild

\* What a search call returned, or that it raised.
NoOutcome == [raised |-> FALSE, msg |-> "", results |-> <<>>]

\* No index database file and no search call.
NoSearch ==
    [phase |-> "new", file |-> FALSE, db |-> NoDatabase, fn |-> "", symbol |-> <<>>,
     contains |-> <<>>, limit |-> 0, outcome |-> NoOutcome]

\* No duplicate scan: no file, no name, no result.
NoScan ==
    [phase |-> "new", fn |-> "", files |-> <<>>, names |-> <<>>, threshold |-> 0,
     duplicate_hashes |-> <<>>, similar_names |-> <<>>]

\* What _process_single_pdf returned, or that it raised.
NoPdfResult ==
    [status |-> "", raised |-> FALSE, reason |-> "", error |-> "", metadata_error |-> "",
     chunks |-> 0, chunk_error |-> ""]

NoBatchSummary ==
    [total |-> 0, processed |-> 0, skipped |-> 0, errors |-> <<>>, metadata_errors |-> 0,
     chunks |-> 0, chunk_errors |-> <<>>]

\* No extract_all_pdfs run.
NoBatch ==
    [phase |-> "new", pdfs |-> <<>>, overwrite |-> FALSE, parallelism |-> 0,
     batch_size |-> 0, out_dir |-> {}, out_dir_before |-> {}, tasks |-> <<>>,
     summary |-> NoBatchSummary]

\* No Zotero item.
NoTags == [phase |-> "new", tags |-> <<>>, op |-> "", marked |-> {}, ok |-> FALSE]

InitToolsIdle == sx = NoSearch /\ dx = NoScan /\ px = NoBatch /\ zx = NoTags

Init == InitDispatcher /\ InitApi /\ InitToolsIdle /\ InitQueueIdle /\ InitChunkIdle /\ InitFormulasIdle

Next ==
    \/ AnalyzeDocument
    \/ ProcessDocumentCall
    \/ EngineReturns
    \/ EngineTimesOut
    \/ CallerContinues

Spec == Init /\ [][Next]_vars

----------------------------------------------------------------------------
(* PDFDispatcher.process_zotero_queue and the ZoteroClient calls it makes *)

\* Keys of the items the library holds under /to_process.
ItemKeyNames == <<"ITEM1", "ITEM2", "ITEM3", "ITEM4">>

\* ZoteroClient.get_items_to_process(limit): the pulled items, at most limit;
\* an API error is caught inside and gives the empty list.
get_items_to_process(n) == [i \in 1..n |-> ItemKeyNames[i]]

\* The documents attached to queue items.
QueuePdfs == PdfsUpTo(MaxQueuePages)

\* Outcomes of ZoteroClient.get_pdf_attachments: an API error is caught inside
\* and gives the empty list, like an item without PDF attachment.
AttachmentOutcomes == {"api_error", "no_pdf", "pdf"}

get_pdf_attachments(outcome) == IF outcome = "pdf" THEN <<"ATTACHMENT">> ELSE <<>>

\* str(e) of the OSError Path("tmp_processing").mkdir(exist_ok=True) raises when
\* the path is a file or the working directory is not writable.
MkdirErrors == {"[Errno 17] File exists: 'tmp_processing'",
                "[Errno 13] Permission denied: 'tmp_processing'"}

\* The file download_pdf writes for the first attachment of an item; the file
\* names of different items are taken to differ.
OutputPath(item_key) == item_key

\* Outcomes of ZoteroClient.download_pdf: zot.item raises before the output file
\* is opened; zot.file raises (or the write fails) after open() created it; or
\* the content is written.  Every exception is caught inside and gives None.
DownloadOutcomes == {"item_error", "file_error", "ok"}

download_pdf(item_key, outcome) ==
    [path |-> IF outcome = "ok" THEN OutputPath(item_key) ELSE None,
     created |-> IF outcome = "item_error" THEN {} ELSE {OutputPath(item_key)}]

\* The requests ZoteroClient.mark_as_processed / mark_as_error make for an item.
\* Both catch every exception and return a flag the queue ignores.
Mark(item_key, op, message) == [item |-> item_key, op |-> op, message |-> message]

mark_as_processed(item_key) == Append(marks, Mark(item_key, "processed", None))

mark_as_error(item_key, error_message) ==
    Append(marks, Mark(item_key, "error", error_message))

\* What the chosen engine does with the downloaded file.  The text-layer engine
\* reads the very document the routing probe read.  An engine call that never
\* responds and has no timeout never lets the queue continue.
QueueEngineEnvs(e, pdf) ==
    IF e = PYMUPDF THEN {Env(pdf.kind, pdf.msg, pdf.pages, <<>>)}
    ELSE {env \in EngineEnvs(e) : env.kind = "hang" => EngineCallHasTimeout(e)}

InitQueue ==
    InitDispatcher /\ InitApi /\ InitToolsIdle /\ InitQueueIdle /\ InitChunkIdle /\ InitFormulasIdle

\* process_zotero_queue(max_items) up to the first loop iteration
QueueCalled ==
    /\ qpc = "idle"
    /\ \E max_items \in 1..MaxItems :
          \E n \in 0..max_items :
             LET pulled == IF zotero_client THEN get_items_to_process(n) ELSE <<>> IN
                /\ items' = pulled
                /\ qpc' = IF pulled = <<>> THEN "returned" ELSE "loop"
    /\ UNCHANGED <<idx, results, marks, tmp_processing, apiVars, dispatcherConfig, toolVars, ck, formulaVars>>

\* loop body, `if not pdfs`: mark_as_error and continue
ItemWithoutPdf ==
    /\ qpc = "loop" /\ idx < Len(items)
    /\ \E outcome \in AttachmentOutcomes : get_pdf_attachments(outcome) = <<>>
    /\ marks' = mark_as_error(items[idx + 1], "No PDF attachments found")
    /\ idx' = idx + 1
    /\ UNCHANGED <<qpc, items, results, tmp_processing, apiVars, dispatcherConfig, toolVars, ck, formulaVars>>

\* loop body, temp_dir.mkdir(exist_ok=True) raises: the except clause marks the item
ItemMkdirFails ==
    /\ qpc = "loop" /\ idx < Len(items)
    /\ get_pdf_attachments("pdf") # <<>>
    /\ \E m \in MkdirErrors : marks' = mark_as_error(items[idx + 1], m)
    /\ idx' = idx + 1
    /\ UNCHANGED <<qpc, items, results, tmp_processing, apiVars, dispatcherConfig, toolVars, ck, formulaVars>>

\* loop body, `if not pdf_path`: mark_as_error and continue
ItemDownloadFails ==
    /\ qpc = "loop" /\ idx < Len(items)
    /\ get_pdf_attachments("pdf") # <<>>
    /\ \E outcome \in DownloadOutcomes :
          LET dl == download_pdf(items[idx + 1], outcome) IN
             /\ dl.path = None
             /\ tmp_processing' = tmp_processing \cup dl.created
    /\ marks' = mark_as_error(items[idx + 1], "Failed to download PDF")
    /\ idx' = idx + 1
    /\ UNCHANGED <<qpc, items, results, apiVars, dispatcherConfig, toolVars, ck, formulaVars>>

\* loop body, the PDF is downloaded and analyze_document chooses its route
ItemAnalyzed ==
    /\ qpc = "loop" /\ idx < Len(items)
    /\ get_pdf_attachments("pdf") # <<>>
    /\ LET item_key == items[idx + 1]
           dl == download_pdf(item_key, "ok")
       IN /\ dl.path # None
          /\ tmp_processing' = tmp_processing \cup dl.created
          /\ \E pdf \in QueuePdfs, lookup \in Lookups :
                LET r == analyze_document(pdf, item_key, lookup) IN
                   /\ route' = r
                   /\ call' = Call("queue_item", pdf, item_key, NoLookup, NoRoute, NoEnv)
                   /\ IF r.raised
                         THEN /\ marks' = mark_as_error(item_key, r.msg)
                              /\ idx' = idx + 1
                              /\ qpc' = "loop"
                         ELSE /\ qpc' = "analyzed"
                              /\ UNCHANGED <<marks, idx>>
    /\ UNCHANGED <<items, results, pc, result, dispatcherConfig, toolVars, ck, formulaVars>>

\* loop body, process_document, the mark, results.append and pdf_path.unlink()
ItemProcessed ==
    /\ qpc = "analyzed"
    /\ LET item_key == call.key IN
       \E env \in QueueEngineEnvs(route.route.engine, call.pdf), unlinked \in BOOLEAN :
          LET r == process_document(route.route, env) IN
             IF r.raised
                THEN /\ marks' = mark_as_error(item_key, r.msg)
                     /\ UNCHANGED <<results, tmp_processing>>
                ELSE /\ marks' = IF r.result.success
                                    THEN mark_as_processed(item_key)
                                    ELSE mark_as_error(item_key, r.result.error_message)
                     /\ results' = Append(results, <<item_key, r.result>>)
                     /\ tmp_processing' = IF unlinked
                                             THEN tmp_processing \ {OutputPath(item_key)}
                                             ELSE tmp_processing
    /\ idx' = idx + 1
    /\ qpc' = "loop"
    /\ call' = NoCall
    /\ route' = RouteOk(NoRoute)
    /\ UNCHANGED <<items, pc, result, dispatcherConfig, toolVars, ck, formulaVars>>

\* the loop is over: return results
QueueReturns ==
    /\ qpc = "loop" /\ idx = Len(items)
    /\ qpc' = "returned"
    /\ UNCHANGED <<items, idx, results, marks, tmp_processing, apiVars, dispatcherConfig, toolVars, ck, formulaVars>>

QueueNext ==
    \/ QueueCalled
    \/ ItemWithoutPdf
    \/ ItemMkdirFails
    \/ ItemDownloadFails
    \/ ItemAnalyzed
    \/ ItemProcessed
    \/ QueueReturns

QueueSpec == InitQueue /\ [][QueueNext]_vars

----------------------------------------------------------------------------
(* AdaptiveTextChunker: Python string operations, with 0-based offsets *)

Min(a, b) == IF a <= b THEN a ELSE b
Max(a, b) == IF a >= b THEN a ELSE b

\* s[a:b] for 0 <= a <= b <= len(s)
Slice(s, a, b) == SubSeq(s, a + 1, b)

\* text.replace("\r\n", "\n")
RECURSIVE replace_crlf(_)
replace_crlf(s) ==
    IF Len(s) < 2 THEN s
    ELSE IF s[1] = "\r" /\ s[2] = "\n" THEN <<"\n">> \o replace_crlf(SubSeq(s, 3, Len(s)))
    ELSE <<s[1]>> \o replace_crlf(Tail(s))

\* s.lstrip(chars)
lstrip(s, chars) ==
    LET keep == {i \in 1..Len(s) : s[i] \notin chars} IN
    IF keep = {} THEN <<>>
    ELSE SubSeq(s, CHOOSE i \in keep : \A j \in keep : i <= j, Len(s))

\* s.rstrip(chars)
rstrip(s, chars) ==
    LET keep == {i \in 1..Len(s) : s[i] \notin chars} IN
    IF keep = {} THEN <<>>
    ELSE SubSeq(s, 1, CHOOSE i \in keep : \A j \in keep : j <= i)

\* s.strip(chars)
strip_chars(s, chars) == rstrip(lstrip(s, chars), chars)

\* The offsets in [lo, hi) at which sub occurs in s, wholly inside [lo, hi).
Occurrences(s, sub, lo, hi) ==
    {pos \in lo..(hi - Len(sub)) : Slice(s, pos, pos + Len(sub)) = sub}

\* s.rfind(sub, lo, hi)
rfind(s, sub, lo, hi) ==
    LET occ == Occurrences(s, sub, lo, hi) IN
    IF occ = {} THEN -1 ELSE CHOOSE pos \in occ : \A q \in occ : q <= pos

\* the offset of the window start, whatever was trimmed
find_at_window_start(s, sub) == 0

\* s.find(sub)
find(s, sub) ==
    LET occ == Occurrences(s, sub, 0, Len(s)) IN
    IF occ = {} THEN -1 ELSE CHOOSE pos \in occ : \A q \in occ : pos <= q

----------------------------------------------------------------------------
(* AdaptiveTextChunker.__init__ and AdaptiveTextChunker.chunk *)

DefaultLargeDocumentThreshold == 60000
DefaultTargetChunkCount == 256

\* The characters of a text: a letter, the separators the split search
\* prefers, and the carriage return the normalisation removes.
Chars == {"a", ".", " ", "\n", "\r"}

Texts == SeqsUpTo(Chars, MaxTextLen)

\* Keyword arguments of the constructor, refused ones included.  Documents are
\* sized either by the defaults (never large) or as always large.
ChunkerArgs ==
    {[base_chunk_size |-> b, chunk_overlap |-> o, max_chunk_size |-> m,
      large_document_threshold |-> z.threshold, target_chunk_count |-> z.target,
      min_chunk_size |-> n] :
        b \in 0..MaxChunkSize, o \in {-1, 0, MaxChunkSize - 1, MaxChunkSize},
        m \in 1..MaxChunkSize,
        n \in {0, 2, MaxChunkSize + 1},
        z \in {[threshold |-> DefaultLargeDocumentThreshold,
                target |-> DefaultTargetChunkCount],
               [threshold |-> 0, target |-> 2]}}

\* __init__ without the check of base_chunk_size
Refused_without_size_check(args) ==
    \/ args.chunk_overlap < 0
    \/ args.max_chunk_size < args.base_chunk_size

\* __init__ raises ValueError
Refused(args) ==
    \/ args.base_chunk_size <= 0
    \/ args.chunk_overlap < 0
    \/ args.max_chunk_size < args.base_chunk_size

\* the attributes __init__ stores
Stored(args) ==
    [args EXCEPT !.target_chunk_count = Max(1, args.target_chunk_count),
                 !.min_chunk_size = Max(1, args.min_chunk_size)]

Chunk(text, index, start, end) ==
    [text |-> text, index |-> index, start |-> start, end |-> end]

_determine_chunk_size(self, document_length) ==
    IF document_length < self.large_document_threshold THEN self.base_chunk_size
    ELSE LET suggested ==
                Max(self.base_chunk_size,
                    Min(self.max_chunk_size, document_length \div self.target_chunk_count))
         IN Min(self.max_chunk_size, Max(self.base_chunk_size, suggested))

\* overlap = min(self.chunk_overlap, max(0, chunk_size // 3))
effective_overlap_uncapped(self, chunk_size) == self.chunk_overlap

effective_overlap(self, chunk_size) == Min(self.chunk_overlap, Max(0, chunk_size \div 3))

preferred == <<<<"\n", "\n">>, <<"\n">>, <<".", " ">>, <<".">>, <<" ">>>>

_find_split_point(self, text, start, window_end) ==
    LET accepted == {t \in 1..Len(preferred) :
                        LET pos == rfind(text, preferred[t], start, window_end) IN
                           pos # -1 /\ pos - start >= self.min_chunk_size}
    IN IF accepted = {} THEN window_end
       ELSE LET t == CHOOSE t \in accepted : \A u \in accepted : t <= u IN
               rfind(text, preferred[t], start, window_end) + Len(preferred[t])

\* One iteration of the while loop of chunk, from the state c of the call.
LoopBody(c) ==
    LET length == Len(c.normalized)
        start == c.start
        window_end == Min(length, start + c.chunk_size)
        split_end == _find_split_point(c.cfg, c.normalized, start, window_end)
        raw_chunk == Slice(c.normalized, start, split_end)
        leading_ws == Len(raw_chunk) - Len(lstrip(raw_chunk, {"\n"}))
        trailing_ws == Len(raw_chunk) - Len(rstrip(raw_chunk, {"\n"}))
        reset == split_end - trailing_ws < start + leading_ws
        stripped_chunk == strip(IF reset THEN strip(raw_chunk)
                                         ELSE strip_chars(raw_chunk, {"\n"}))
        relative_start == find(raw_chunk, stripped_chunk)
        located == stripped_chunk # <<>> /\ relative_start # -1
        chunk_start == IF located THEN start + relative_start
                       ELSE IF reset THEN start ELSE start + leading_ws
        chunk_end == IF located THEN chunk_start + Len(stripped_chunk)
                     ELSE IF reset THEN split_end ELSE split_end - trailing_ws
        next_start == Max(chunk_end - c.overlap, split_end - c.overlap)
    IN [c EXCEPT
          !.chunks = IF stripped_chunk # <<>>
                        THEN Append(@, Chunk(stripped_chunk, c.index, chunk_start, chunk_end))
                        ELSE @,
          !.index = IF stripped_chunk # <<>> THEN @ + 1 ELSE @,
          !.iterations = @ + 1,
          !.start = IF split_end >= length THEN @
                    ELSE IF next_start <= start THEN split_end ELSE next_start,
          !.phase = IF split_end >= length THEN "returned" ELSE "loop"]

\* The chunker is used on its own; no dispatcher call is in progress.
InitChunk ==
    /\ engines_available = [e \in Engines |-> FALSE]
    /\ zotero_client = FALSE
    /\ extract_pdf_loaded = FALSE
    /\ InitApi /\ InitToolsIdle /\ InitQueueIdle /\ InitChunkIdle /\ InitFormulasIdle

\* AdaptiveTextChunker(**args)
ChunkerConstructed ==
    /\ ck.phase = "new"
    /\ \E args \in ChunkerArgs :
          ck' = IF Refused(args) THEN [ck EXCEPT !.phase = "ValueError"]
                ELSE [ck EXCEPT !.phase = "ready", !.cfg = Stored(args)]
    /\ UNCHANGED <<apiVars, dispatcherConfig, toolVars, queueVars, formulaVars>>

\* chunker.chunk(text), up to the first loop iteration
ChunkCalled ==
    /\ ck.phase = "ready"
    /\ \E text \in Texts :
          LET normalized == replace_crlf(text)
              chunk_size == _determine_chunk_size(ck.cfg, Len(normalized))
          IN ck' = [ck EXCEPT
                      !.text = text,
                      !.normalized = normalized,
                      !.chunk_size = IF strip(normalized) = <<>> THEN @ ELSE chunk_size,
                      !.overlap = IF strip(normalized) = <<>> THEN @
                                  ELSE effective_overlap(ck.cfg, chunk_size),
                      !.phase = IF strip(normalized) = <<>> THEN "returned" ELSE "loop"]
    /\ UNCHANGED <<apiVars, dispatcherConfig, toolVars, queueVars, formulaVars>>

\* one iteration of `while start < length`; the loop is left by its break
ChunkIteration ==
    /\ ck.phase = "loop"
    /\ ck.start < Len(ck.normalized)
    /\ ck' = LoopBody(ck)
    /\ UNCHANGED <<apiVars, dispatcherConfig, toolVars, queueVars, formulaVars>>

ChunkNext ==
    \/ ChunkerConstructed
    \/ ChunkCalled
    \/ ChunkIteration

ChunkSpec == InitChunk /\ [][ChunkNext]_vars

----------------------------------------------------------------------------
(* formulas/extract.py: norm_formula, hash_formula, extract_formulas_from_md *)

\* The letters "p" and "q" stand for two formula bodies with the same
\* hash_formula value: md5(...).hexdigest()[:12] keeps 48 bits of the digest,
\* and "x_{10807840}" and "x_{26383874}" both give "350ed2eb4f4a".
Colliding == <<"p", "q">>

\* re.sub(r"\s+", " ", s): every run of whitespace becomes one blank
RECURSIVE collapse_whitespace(_)
collapse_whitespace(s) ==
    IF s = <<>> THEN <<>>
    ELSE IF s[1] \in Whitespace
    THEN <<" ">> \o collapse_whitespace(lstrip(s, Whitespace))
    ELSE <<s[1]>> \o collapse_whitespace(Tail(s))

norm_formula(latex) == collapse_whitespace(strip(latex))

\* The value of hash_formula, named by a text that has it.
hash_formula(latex) ==
    IF latex = <<Colliding[2]>> THEN <<Colliding[1]>> ELSE latex

\* A character of the text, or the placeholder FORMULA_<hash> put in its place.
Plain(c) == [ch |-> c, hash |-> <<>>]
Placeholder(formula_hash) == [ch |-> "FORMULA_", hash |-> formula_hash]

Lift(text) == [i \in 1..Len(text) |-> Plain(text[i])]
Chars_of(t) == [i \in 1..Len(t) |-> t[i].ch]

IsCh(t, i, c) == i >= 1 /\ i <= Len(t) /\ t[i].ch = c

\* FORMULA_BLOCK = \$\$(.+?)\$\$ with DOTALL, tried at offset i: the position of
\* the closing $$ of the shortest match, or 0 when there is no match at i.
BlockClose(t, i) ==
    LET closing == {j \in (i + 3)..(Len(t) - 1) : IsCh(t, j, "$") /\ IsCh(t, j + 1, "$")} IN
    IF IsCh(t, i, "$") /\ IsCh(t, i + 1, "$") /\ closing # {}
    THEN CHOOSE j \in closing : \A k \in closing : j <= k
    ELSE 0

\* FORMULA_INLINE = (?<!\$)\$(.+?)\$(?!\$), tried at offset i: the position of
\* the closing $ of the shortest match, or 0 when there is no match at i.
InlineClose(t, i) ==
    LET closing == {j \in (i + 2)..Len(t) :
                       /\ IsCh(t, j, "$") /\ ~IsCh(t, j + 1, "$")
                       /\ \A k \in (i + 1)..(j - 1) : t[k].ch # "\n"} IN
    IF IsCh(t, i, "$") /\ ~IsCh(t, i - 1, "$") /\ closing # {}
    THEN CHOOSE j \in closing : \A k \in closing : j <= k
    ELSE 0

\* What one re.sub pass gives: the new text and the register_formula calls made.
Subbed(replaced, calls) == [replaced |-> replaced, calls |-> calls]

RegisterCall(kind, raw_latex) == [kind |-> kind, raw_latex |-> raw_latex]

\* the placeholder register_formula returns
register_formula_placeholder(raw_latex) == Placeholder(hash_formula(norm_formula(raw_latex)))

\* FORMULA_BLOCK.sub(replace_block, text), scanning from offset i
RECURSIVE sub_block(_, _)
sub_block(t, i) ==
    IF i > Len(t) THEN Subbed(<<>>, <<>>)
    ELSE LET j == BlockClose(t, i) IN
         IF j = 0
         THEN LET rest == sub_block(t, i + 1) IN
              Subbed(<<t[i]>> \o rest.replaced, rest.calls)
         ELSE LET raw_latex == Chars_of(SubSeq(t, i + 2, j - 1))
                  rest == sub_block(t, j + 2) IN
              Subbed(<<Plain("\n"), register_formula_placeholder(raw_latex), Plain("\n")>>
                        \o rest.replaced,
                     <<RegisterCall("block", raw_latex)>> \o rest.calls)

\* FORMULA_INLINE.sub(replace_inline, replaced), scanning from offset i
RECURSIVE sub_inline(_, _)
sub_inline(t, i) ==
    IF i > Len(t) THEN Subbed(<<>>, <<>>)
    ELSE LET j == InlineClose(t, i) IN
         IF j = 0
         THEN LET rest == sub_inline(t, i + 1) IN
              Subbed(<<t[i]>> \o rest.replaced, rest.calls)
         ELSE LET raw_latex == Chars_of(SubSeq(t, i + 1, j - 1))
                  rest == sub_inline(t, j + 1) IN
              Subbed(<<Plain(" "), register_formula_placeholder(raw_latex), Plain(" ")>>
                        \o rest.replaced,
                     <<RegisterCall("inline", raw_latex)>> \o rest.calls)

\* md_path.stem and md_path.name of the markdown files
Stem(name) ==
    IF name \in {"a.md", "a.mmd"} THEN "a" ELSE IF name \in {"b.md", "b.mmd"} THEN "b" ELSE ""

FormulaRow(doc_id, formula_hash, kind, latex, source) ==
    [doc_id |-> doc_id, hash |-> formula_hash, type |-> kind, latex |-> latex,
     source |-> source]

\* register_formula's effect on `seen` and `formulas`, call after call
RECURSIVE register_formula(_, _, _, _, _)
register_formula(name, deduplicate, calls, seen, formulas) ==
    IF calls = <<>> THEN formulas
    ELSE LET latex == norm_formula(calls[1].raw_latex)
             formula_hash == hash_formula(latex)
             key == <<formula_hash, Stem(name), calls[1].kind>>
         IN IF ~deduplicate \/ key \notin seen
            THEN register_formula(name, deduplicate, Tail(calls), seen \cup {key},
                    Append(formulas,
                           FormulaRow(Stem(name), formula_hash, calls[1].kind, latex, name)))
            ELSE register_formula(name, deduplicate, Tail(calls), seen, formulas)

\* extract_formulas_from_md(md_path, deduplicate=...) on a file with this text
extract_formulas_from_md(name, text, deduplicate) ==
    LET blocks == sub_block(Lift(text), 1)
        inlines == sub_inline(blocks.replaced, 1)
        calls == blocks.calls \o inlines.calls
    IN [replaced |-> inlines.replaced,
        calls |-> calls,
        formulas |-> register_formula(name, deduplicate, calls, {}, <<>>)]

\* The pieces of a markdown text, and the texts made of them.
Segments ==
    {<<"$", "$", "x", "$", "$">>, <<"$", "x", "$">>, <<"$", " ", "x", "$">>,
     <<"$", "p", "$">>, <<"$", "q", "$">>, <<" ">>, <<"$">>, <<"\n">>}

RECURSIVE Concat(_)
Concat(parts) == IF parts = <<>> THEN <<>> ELSE parts[1] \o Concat(Tail(parts))

Markdowns == {Concat(parts) : parts \in SeqsUpTo(Segments, MaxSegments)}

MarkdownNames == {"a.md", "a.mmd", "b.md"}

InitExtract ==
    /\ engines_available = [e \in Engines |-> FALSE]
    /\ zotero_client = FALSE
    /\ extract_pdf_loaded = FALSE
    /\ InitApi /\ InitToolsIdle /\ InitQueueIdle /\ InitChunkIdle /\ InitFormulasIdle

\* replaced, formulas = extract_formulas_from_md(md_path, deduplicate=deduplicate)
ExtractFormulasFromMd ==
    /\ ex.phase = "new"
    /\ \E name \in MarkdownNames, text \in Markdowns, deduplicate \in BOOLEAN :
          LET r == extract_formulas_from_md(name, text, deduplicate) IN
             ex' = [phase |-> "returned", name |-> name, deduplicate |-> deduplicate,
                    text |-> text, calls |-> r.calls, replaced |-> r.replaced,
                    formulas |-> r.formulas]
    /\ UNCHANGED <<apiVars, dispatcherConfig, toolVars, queueVars, ck, fx, ix>>

\* the caller is done with the result
ExtractCallerContinues ==
    /\ ex.phase = "returned"
    /\ ex' = NoExtraction
    /\ UNCHANGED <<apiVars, dispatcherConfig, toolVars, queueVars, ck, fx, ix>>

ExtractNext ==
    \/ ExtractFormulasFromMd
    \/ ExtractCallerContinues

ExtractSpec == InitExtract /\ [][ExtractNext]_vars

----------------------------------------------------------------------------
(* formulas/extract.py: extract_all_formulas on the markdown directory *)

\* A markdown file: its name and its text, or that reading it raises.
MarkdownFile(name, readable, text) == [name |-> name, readable |-> readable, text |-> text]

\* The texts of the files in the markdown directory.
RunMarkdowns == {<<"x">>, <<"$", "x", "$">>, <<"$", "$", "x", "$", "$", "$", "x", "$">>}

FilesNamed(name) ==
    {MarkdownFile(name, TRUE, text) : text \in RunMarkdowns}
    \cup {MarkdownFile(name, FALSE, <<>>)}

\* The directories: every name is absent or names one file.
MarkdownDirs ==
    {dir \in SUBSET (UNION {FilesNamed(name) : name \in MarkdownNames}) :
        \A f, g \in dir : f.name = g.name => f = g}

\* sorted(path.glob(pattern)) for the pattern "*.md" or "*.mmd"
SortedGlob(dir, names) ==
    LET found == {i \in 1..Len(names) : \E f \in dir : f.name = names[i]}
        nth[k \in 0..Len(names)] ==
            IF k = 0 THEN <<>>
            ELSE IF k \in found THEN Append(nth[k - 1], names[k]) ELSE nth[k - 1]
    IN nth[Len(names)]

_iter_markdown_files(dir) ==
    SortedGlob(dir, <<"a.md", "b.md">>) \o SortedGlob(dir, <<"a.mmd", "b.mmd">>)

\* out_file = paths.text_dir / f"{md_path.stem}.txt"
OutFile(name) == IF Stem(name) = "a" THEN "a.txt" ELSE "b.txt"

TextFile(name, text) == [name |-> name, text |-> text]

\* out_file.write_text(replaced)
write_text(text_dir, name, text) ==
    {f \in text_dir : f.name # name} \cup {TextFile(name, text)}

\* summary["errors"].append(...) and the count it is wrongly taken for
RecordError_as_processed(run, file) ==
    [run EXCEPT !.summary.errors = Append(@, file), !.summary.processed = @ + 1]

\* summary["errors"].append({"file": ..., "error": str(exc)}); continue
RecordError(run, file) == [run EXCEPT !.summary.errors = Append(@, file)]

\* the rows are written to the log and the file is counted
RecordProcessed(run, formulas) ==
    [run EXCEPT !.metadata_file = @ \o formulas,
                !.written = @ \o formulas,
                !.summary.processed = @ + 1,
                !.summary.total_formulas = @ + Len(formulas),
                !.summary.documents_with_formulas =
                    IF formulas # <<>> THEN @ + 1 ELSE @,
                !.summary.documents_without_formulas =
                    IF formulas # <<>> THEN @ ELSE @ + 1]

\* The body of the loop over md_files for the file md_path, when the write of
\* the text file works (writable) or raises.
process_markdown_file(run, md_path, writable) ==
    IF ~md_path.readable
    THEN RecordError([run EXCEPT !.outcomes = Append(@, "extract_error")], md_path.name)
    ELSE LET r == extract_formulas_from_md(md_path.name, md_path.text, run.deduplicate) IN
         IF ~writable
         THEN RecordError([run EXCEPT !.outcomes = Append(@, "write_error")],
                          OutFile(md_path.name))
         ELSE RecordProcessed(
                 [run EXCEPT !.outcomes = Append(@, "processed"),
                             !.text_dir = write_text(@, OutFile(md_path.name), r.replaced)],
                 r.formulas)

InitFormula ==
    /\ engines_available = [e \in Engines |-> FALSE]
    /\ zotero_client = FALSE
    /\ extract_pdf_loaded = FALSE
    /\ InitApi /\ InitToolsIdle /\ InitQueueIdle /\ InitChunkIdle
    /\ ex = NoExtraction /\ ix = NoIndexBuild
    /\ \E dir \in MarkdownDirs : fx = [NoFormulaRun EXCEPT !.phase = "idle", !.markdown_dir = dir]

\* extract_all_formulas(deduplicate=...) up to the loop over md_files
ExtractAllCalled ==
    /\ fx.phase \in {"idle", "returned"}
    /\ fx.runs < MaxRuns
    /\ \E deduplicate \in BOOLEAN :
          LET md_files == _iter_markdown_files(fx.markdown_dir)
              started == [fx EXCEPT !.deduplicate = deduplicate,
                                    !.listed = fx.markdown_dir,
                                    !.md_files = md_files,
                                    !.summary = [NoSummary EXCEPT !.total = Len(md_files)],
                                    !.outcomes = <<>>,
                                    !.written = <<>>,
                                    !.previous =
                                        IF fx.runs = 0 THEN NoPreviousRun
                                        ELSE [markdown_dir |-> fx.listed,
                                              deduplicate |-> fx.deduplicate,
                                              outcomes |-> fx.outcomes,
                                              metadata_file |-> fx.metadata_file,
                                              text_dir |-> fx.text_dir]]
          IN fx' = IF md_files = <<>>
                   THEN [started EXCEPT !.phase = "returned", !.runs = @ + 1]
                   ELSE [started EXCEPT !.phase = "running", !.metadata_file = <<>>]
    /\ UNCHANGED <<apiVars, dispatcherConfig, toolVars, queueVars, ck, ex, ix>>

\* one iteration of the loop over md_files
MarkdownFileProcessed ==
    /\ fx.phase = "running"
    /\ Len(fx.outcomes) < Len(fx.md_files)
    /\ LET name == fx.md_files[Len(fx.outcomes) + 1]
           md_path == CHOOSE f \in fx.markdown_dir : f.name = name
       IN \E writable \in BOOLEAN : fx' = process_markdown_file(fx, md_path, writable)
    /\ UNCHANGED <<apiVars, dispatcherConfig, toolVars, queueVars, ck, ex, ix>>

\* the loop is over: the log is closed and the summary returned
ExtractAllReturns ==
    /\ fx.phase = "running"
    /\ Len(fx.outcomes) = Len(fx.md_files)
    /\ fx' = [fx EXCEPT !.phase = "returned", !.runs = @ + 1]
    /\ UNCHANGED <<apiVars, dispatcherConfig, toolVars, queueVars, ck, ex, ix>>

\* between two runs a markdown file is removed from the directory
MarkdownFileRemoved ==
    /\ fx.phase = "returned"
    /\ fx.runs < MaxRuns
    /\ \E f \in fx.markdown_dir : fx' = [fx EXCEPT !.markdown_dir = @ \ {f}]
    /\ UNCHANGED <<apiVars, dispatcherConfig, toolVars, queueVars, ck, ex, ix>>

FormulaNext ==
    \/ ExtractAllCalled
    \/ MarkdownFileProcessed
    \/ ExtractAllReturns
    \/ MarkdownFileRemoved

FormulaSpec == InitFormula /\ [][FormulaNext]_vars

----------------------------------------------------------------------------
(* formulas/index.py: create_formula_index *)

Letters == {"x", "y"}

Operators == {"=", "+", "-", "*", "/", "^", "_", "{", "}"}

\* The length of the run of letters that starts at position i of s.
RECURSIVE LetterRun(_, _)
LetterRun(s, i) ==
    IF i <= Len(s) /\ s[i] \in Letters THEN 1 + LetterRun(s, i + 1) ELSE 0

\* TOKEN_PATTERN.findall from position i on:
\* [A-Za-z]+ | \\[A-Za-z]+ | [=+\-*/^_{}]
RECURSIVE findall(_, _)
findall(s, i) ==
    IF i > Len(s) THEN <<>>
    ELSE IF s[i] \in Letters
         THEN <<SubSeq(s, i, i + LetterRun(s, i) - 1)>> \o findall(s, i + LetterRun(s, i))
    ELSE IF s[i] = "\\" /\ LetterRun(s, i + 1) > 0
         THEN <<SubSeq(s, i, i + LetterRun(s, i + 1))>>
              \o findall(s, i + 1 + LetterRun(s, i + 1))
    ELSE IF s[i] \in Operators THEN <<<<s[i]>>>> \o findall(s, i + 1)
    ELSE findall(s, i + 1)

tokenize_latex(latex) == findall(latex, 1)

\* The elements of a set in some order.
RECURSIVE SetToSeq(_)
SetToSeq(S) ==
    IF S = {} THEN <<>>
    ELSE LET e == CHOOSE e \in S : TRUE IN <<e>> \o SetToSeq(S \ {e})

\* tokens = set(tokenize_latex(str(row.get("latex", ""))))
tokens_of(latex) ==
    LET found == tokenize_latex(latex) IN SetToSeq({found[i] : i \in 1..Len(found)})

\* A value of "source" that sqlite3 cannot bind (a JSON list or object).
Unbindable == "<list>"

\* What json.loads makes of one line of the log after line.strip(): nothing
\* for a blank line, a JSONDecodeError, a dict, or another JSON value.
CatalogLine(json, row) == [json |-> json, row |-> row]

NoRow == FormulaRow("", <<>>, "", <<>>, "")

IndexedLatex == {<<"x">>, <<"x", "+", "x">>, <<"\\", "x", "y", "1">>, <<"1">>}

CatalogLines ==
    {CatalogLine("dict", FormulaRow("a", hash_formula(latex), "inline", latex, "a.md")) :
        latex \in IndexedLatex}
    \cup {CatalogLine("dict", FormulaRow("a", <<"x">>, "inline", <<"x">>, Unbindable))}
    \cup {CatalogLine(json, NoRow) : json \in {"blank", "undecodable", "list"}}

Catalogs == SeqsUpTo(CatalogLines, MaxCatalogLines)

\* _initialise_schema: both tables are dropped and created again
_initialise_schema(db) == [tables |-> TRUE, formulas |-> <<>>, tokens |-> <<>>, seq |-> 0]

IndexRow(id, row) ==
    [id |-> id, hash |-> row.hash, doc_id |-> row.doc_id, type |-> row.type,
     latex |-> row.latex, source |-> row.source]

TokenRow(token, formula_id) == [token |-> token, formula_id |-> formula_id]

\* INSERT INTO formulas ...; formula_id = cursor.lastrowid; the token rows
insert_row(db, row) ==
    LET formula_id == db.seq + 1
        tokens == tokens_of(row.latex)
    IN [db EXCEPT !.formulas = Append(@, IndexRow(formula_id, row)),
                  !.seq = formula_id,
                  !.tokens = @ \o [i \in 1..Len(tokens) |-> TokenRow(tokens[i], formula_id)]]

InitIndex ==
    /\ engines_available = [e \in Engines |-> FALSE]
    /\ zotero_client = FALSE
    /\ extract_pdf_loaded = FALSE
    /\ InitApi /\ InitToolsIdle /\ InitQueueIdle /\ InitChunkIdle
    /\ ex = NoExtraction /\ fx = NoFormulaRun
    /\ \/ ix = [NoIndexBuild EXCEPT !.phase = "idle"]
       \/ \E catalog \in Catalogs :
             ix = [NoIndexBuild EXCEPT !.phase = "idle", !.exists = TRUE,
                                       !.metadata_file = catalog]

\* create_formula_index() up to the loop over the rows of the log
CreateFormulaIndexCalled ==
    /\ ix.phase \in {"idle", "returned", "raised"}
    /\ ix.builds < MaxBuilds
    /\ IF ~ix.exists
       THEN ix' = [ix EXCEPT !.phase = "returned",
                             !.read = 0,
                             !.summary = [NoIndexSummary EXCEPT
                                             !.errors = <<"not found">>],
                             !.builds = @ + 1]
       ELSE ix' = [ix EXCEPT !.phase = "building",
                             !.read = 0,
                             !.summary = NoIndexSummary,
                             !.db = _initialise_schema(@),
                             !.committed = _initialise_schema(@)]
    /\ UNCHANGED <<apiVars, dispatcherConfig, toolVars, queueVars, ck, ex, fx>>

\* _iter_formula_rows skips a blank or undecodable line
CatalogLineSkipped ==
    /\ ix.phase = "building"
    /\ ix.read < Len(ix.metadata_file)
    /\ ix.metadata_file[ix.read + 1].json \in {"blank", "undecodable"}
    /\ ix' = [ix EXCEPT !.read = @ + 1]
    /\ UNCHANGED <<apiVars, dispatcherConfig, toolVars, queueVars, ck, ex, fx>>

\* one iteration of the loop for a row that is a dict: it is inserted with
\* its tokens, or the INSERT raises sqlite3.Error and the row is left out
CatalogRowIndexed ==
    /\ ix.phase = "building"
    /\ ix.read < Len(ix.metadata_file)
    /\ ix.metadata_file[ix.read + 1].json = "dict"
    /\ LET row == ix.metadata_file[ix.read + 1].row
           counted == [ix EXCEPT !.read = @ + 1, !.summary.total = @ + 1]
       IN ix' = IF row.source = Unbindable
                THEN [counted EXCEPT !.summary.errors = Append(@, "Error binding parameter 5")]
                ELSE [counted EXCEPT !.db = insert_row(@, row),
                                     !.summary.token_mappings = @ + Len(tokens_of(row.latex)),
                                     !.summary.indexed = @ + 1]
    /\ UNCHANGED <<apiVars, dispatcherConfig, toolVars, queueVars, ck, ex, fx>>

\* a row that is no dict: row.get raises AttributeError, the connection is
\* closed without commit and the exception leaves create_formula_index
CatalogRowRaises ==
    /\ ix.phase = "building"
    /\ ix.read < Len(ix.metadata_file)
    /\ ix.metadata_file[ix.read + 1].json = "list"
    /\ ix' = [ix EXCEPT !.phase = "raised",
                        !.read = @ + 1,
                        !.summary.total = @ + 1,
                        !.db = ix.committed,
                        !.builds = @ + 1]
    /\ UNCHANGED <<apiVars, dispatcherConfig, toolVars, queueVars, ck, ex, fx>>

\* the log is read: connection.commit(), close, return summary
CreateFormulaIndexReturns ==
    /\ ix.phase = "building"
    /\ ix.read = Len(ix.metadata_file)
    /\ ix' = [ix EXCEPT !.phase = "returned", !.committed = ix.db, !.builds = @ + 1]
    /\ UNCHANGED <<apiVars, dispatcherConfig, toolVars, queueVars, ck, ex, fx>>

\* between two builds the catalog log is written anew
CatalogRewritten ==
    /\ ix.phase \in {"returned", "raised"}
    /\ ix.builds < MaxBuilds
    /\ \E catalog \in SeqsUpTo(CatalogLines, 1) :
          ix' = [ix EXCEPT !.phase = "idle", !.exists = TRUE, !.metadata_file = catalog]
    /\ UNCHANGED <<apiVars, dispatcherConfig, toolVars, queueVars, ck, ex, fx>>

IndexNext ==
    \/ CreateFormulaIndexCalled
    \/ CatalogLineSkipped
    \/ CatalogRowIndexed
    \/ CatalogRowRaises
    \/ CreateFormulaIndexReturns
    \/ CatalogRewritten

IndexSpec == InitIndex /\ [][IndexNext]_vars

----------------------------------------------------------------------------
(* formulas/search.py: search_by_symbol, search_by_pattern, search_formulas *)

\* The index database after create_formula_index has indexed `rows`.
RECURSIVE BuildOf(_)
BuildOf(rows) ==
    IF rows = <<>> THEN _initialise_schema(NoDatabase)
    ELSE insert_row(BuildOf(SubSeq(rows, 1, Len(rows) - 1)), rows[Len(rows)])

IndexedRows ==
    SeqsUpTo({FormulaRow("a", hash_formula(latex), "inline", latex, "a.md") :
                 latex \in IndexedLatex}, MaxCatalogLines)

\* The index database file at search time: absent, present without the tables
\* (_initialise_schema has dropped them and not yet created them), or built.
IndexStores ==
    {[file |-> FALSE, db |-> NoDatabase], [file |-> TRUE, db |-> NoDatabase]}
    \cup {[file |-> TRUE, db |-> BuildOf(rows)] : rows \in IndexedRows}

\* The argument None or "": `if symbol:` and `if contains:` are false for both.
NoArg == <<>>

SearchSymbols == {<<"x">>, <<"+">>, <<"y">>}

SearchPatterns == {<<"x">>, <<"1">>, <<".", "x">>, <<"y", ".">>}

\* regex.match at position i for a pattern of literal characters and "."
MatchesAt(pattern, latex, i) ==
    /\ i + Len(pattern) - 1 <= Len(latex)
    /\ \A k \in 1..Len(pattern) :
          \/ pattern[k] = "." /\ latex[i + k - 1] # "\n"
          \/ pattern[k] # "." /\ pattern[k] = latex[i + k - 1]

\* regex.search(latex) is not None
re_search(pattern, latex) == \E i \in 1..(Len(latex) + 1) : MatchesAt(pattern, latex, i)

SearchOk(matches) == [raised |-> FALSE, msg |-> "", results |-> matches]
SearchRaise(msg) == [raised |-> TRUE, msg |-> msg, results |-> <<>>]

\* The dict a search builds from a row of the formulas table.
SearchRecord(row) ==
    [hash |-> row.hash, latex |-> row.latex, doc_id |-> row.doc_id, type |-> row.type,
     source |-> row.source]

Take(seq, n) == SubSeq(seq, 1, Min(n, Len(seq)))

\* The positions of the rows of `rows` that satisfy Test, as a sequence.
SelectRows(rows, Test(_)) ==
    LET upto[k \in 0..Len(rows)] ==
            IF k = 0 THEN <<>>
            ELSE IF Test(rows[k]) THEN Append(upto[k - 1], rows[k]) ELSE upto[k - 1]
    IN upto[Len(rows)]

\* tokens t JOIN formulas f ON f.id = t.formula_id WHERE t.token = ?
HasToken(db, row, symbol) ==
    \E i \in 1..Len(db.tokens) :
        db.tokens[i].token = symbol /\ db.tokens[i].formula_id = row.id

search_by_symbol(store, symbol, limit) ==
    IF ~store.file THEN SearchOk(<<>>)
    ELSE IF ~store.db.tables THEN SearchRaise("no such table: tokens")
    ELSE LET Joined(row) == HasToken(store.db, row, symbol)
             grouped == SelectRows(store.db.formulas, Joined)
         IN SearchOk([k \in 1..Min(limit, Len(grouped)) |-> SearchRecord(grouped[k])])

\* the loop `for row in c.fetchall()` from row k on: a match is appended, then
\* `if len(results) >= limit: break`
RECURSIVE pattern_loop(_, _, _, _, _)
pattern_loop(rows, k, pattern, limit, matches) ==
    IF k > Len(rows) THEN matches
    ELSE IF re_search(pattern, rows[k].latex)
         THEN LET appended == Append(matches, SearchRecord(rows[k])) IN
              IF Len(appended) >= limit THEN appended
              ELSE pattern_loop(rows, k + 1, pattern, limit, appended)
    ELSE pattern_loop(rows, k + 1, pattern, limit, matches)

search_by_pattern(store, pattern, limit) ==
    IF ~store.file THEN SearchOk(<<>>)
    ELSE IF ~store.db.tables THEN SearchRaise("no such table: formulas")
    ELSE SearchOk(pattern_loop(store.db.formulas, 1, pattern, limit, <<>>))

\* SELECT DISTINCT f.hash FROM tokens t JOIN formulas f ... WHERE t.token = ?
symbol_hashes(db, symbol) ==
    {db.formulas[k].hash : k \in {j \in 1..Len(db.formulas) :
                                      HasToken(db, db.formulas[j], symbol)}}

\* list(hashes): the elements of the set in one of their orders.
Orderings(hashes) ==
    {order \in [1..Cardinality(hashes) -> hashes] :
        \A i, j \in 1..Cardinality(hashes) : order[i] = order[j] => i = j}

\* SELECT ... FROM formulas WHERE hash = ?; c.fetchone()
fetchone_by_hash(db, h) ==
    LET found == {k \in 1..Len(db.formulas) : db.formulas[k].hash = h}
    IN IF found = {} THEN <<>>
       ELSE <<db.formulas[CHOOSE k \in found : \A j \in found : k <= j]>>

\* the loops `for h in ...`: the row fetched for each hash of `order`, kept
\* `if row` and, with a pattern, `if row and pattern.search(row[0])`
RECURSIVE rows_by_hash(_, _, _)
rows_by_hash(db, order, contains) ==
    IF order = <<>> THEN <<>>
    ELSE LET row == fetchone_by_hash(db, Head(order))
         IN (IF row # <<>> /\ (contains = NoArg \/ re_search(contains, row[1].latex))
             THEN <<SearchRecord(row[1])>> ELSE <<>>)
            \o rows_by_hash(db, Tail(order), contains)

\* search_formulas, `order` being the order list(hashes) has
search_formulas(store, symbol, contains, limit, order) ==
    IF ~store.file THEN SearchOk(<<>>)
    ELSE IF symbol # NoArg /\ ~store.db.tables THEN SearchRaise("no such table: tokens")
    ELSE LET search_hashes == IF symbol # NoArg THEN order ELSE <<>>
         IN IF contains # NoArg
            THEN IF search_hashes # <<>>
                 THEN SearchOk(Take(rows_by_hash(store.db, search_hashes, contains), limit))
                 ELSE IF ~store.db.tables THEN SearchRaise("no such table: formulas")
                 ELSE SearchOk(Take(pattern_loop(store.db.formulas, 1, contains, limit, <<>>),
                                    limit))
            ELSE SearchOk(Take(rows_by_hash(store.db, Take(search_hashes, limit), NoArg), limit))

InitSearch ==
    /\ engines_available = [e \in Engines |-> FALSE]
    /\ zotero_client = FALSE
    /\ extract_pdf_loaded = FALSE
    /\ InitApi /\ InitQueueIdle /\ InitChunkIdle /\ InitFormulasIdle
    /\ dx = NoScan /\ px = NoBatch /\ zx = NoTags
    /\ \E store \in IndexStores :
          sx = [NoSearch EXCEPT !.phase = "idle", !.file = store.file, !.db = store.db]

SearchBySymbol ==
    /\ sx.phase = "idle"
    /\ \E symbol \in SearchSymbols, limit \in 0..MaxLimit :
          sx' = [sx EXCEPT !.phase = "returned", !.fn = "search_by_symbol",
                           !.symbol = symbol, !.limit = limit,
                           !.outcome = search_by_symbol(sx, symbol, limit)]
    /\ UNCHANGED <<apiVars, dispatcherConfig, queueVars, ck, formulaVars, dx, px, zx>>

SearchByPattern ==
    /\ sx.phase = "idle"
    /\ \E pattern \in SearchPatterns, limit \in 0..MaxLimit :
          sx' = [sx EXCEPT !.phase = "returned", !.fn = "search_by_pattern",
                           !.contains = pattern, !.limit = limit,
                           !.outcome = search_by_pattern(sx, pattern, limit)]
    /\ UNCHANGED <<apiVars, dispatcherConfig, queueVars, ck, formulaVars, dx, px, zx>>

SearchFormulas ==
    /\ sx.phase = "idle"
    /\ \E symbol \in SearchSymbols \cup {NoArg}, contains \in SearchPatterns \cup {NoArg},
          limit \in 0..MaxLimit :
          \E order \in Orderings(IF sx.file /\ sx.db.tables /\ symbol # NoArg
                                 THEN symbol_hashes(sx.db, symbol) ELSE {}) :
             sx' = [sx EXCEPT !.phase = "returned", !.fn = "search_formulas",
                              !.symbol = symbol, !.contains = contains, !.limit = limit,
                              !.outcome = search_formulas(sx, symbol, contains, limit, order)]
    /\ UNCHANGED <<apiVars, dispatcherConfig, queueVars, ck, formulaVars, dx, px, zx>>

SearchCallerContinues ==
    /\ sx.phase = "returned"
    /\ sx' = [NoSearch EXCEPT !.phase = "idle", !.file = sx.file, !.db = sx.db]
    /\ UNCHANGED <<apiVars, dispatcherConfig, queueVars, ck, formulaVars, dx, px, zx>>

SearchNext ==
    \/ SearchBySymbol
    \/ SearchByPattern
    \/ SearchFormulas
    \/ SearchCallerContinues

SearchSpec == InitSearch /\ [][SearchNext]_vars

----------------------------------------------------------------------------
(* analysis/duplicates.py: find_duplicate_hashes, find_similar_names *)

Bytes == {"0", "1"}

\* A file of the scan: its name, whether it can be opened and read, its bytes.
ScannedFile(name, readable, content) ==
    [name |-> name, readable |-> readable, content |-> content]

FileContents == SeqsUpTo(Bytes, PrefixBytes + 1)

\* The lists of files: the k-th file has the name k.
FileLists ==
    UNION {{[k \in 1..n |-> ScannedFile(k, f[k].readable, f[k].content)] :
              f \in [1..n -> {[readable |-> TRUE, content |-> c] : c \in FileContents}
                             \cup {[readable |-> FALSE, content |-> <<>>]}]} :
           n \in 0..MaxFiles}

\* file_hash returning None
HashNone == <<>>

\* hashlib.sha256 of the bytes: a digest that tells apart all modelled inputs
hexdigest(chunk) == <<"sha256">> \o chunk

\* the digest of all bytes of the file
file_hash_whole_file(path) ==
    IF ~path.readable THEN HashNone ELSE hexdigest(path.content)

\* file_hash(path): the digest of the first max_bytes bytes, None on OSError
file_hash(path) ==
    IF ~path.readable THEN HashNone ELSE hexdigest(Take(path.content, PrefixBytes))

\* hashes.setdefault(h, []).append(p.name) for the files from position k on;
\* the dict as the sequence of its items in insertion order
RECURSIVE group_by_hash(_, _, _)
group_by_hash(files, k, hashes) ==
    IF k > Len(files) THEN hashes
    ELSE LET h == file_hash(files[k])
             at == {i \in 1..Len(hashes) : hashes[i].k = h}
         IN group_by_hash(files, k + 1,
                IF at = {} THEN Append(hashes, [k |-> h, v |-> <<files[k].name>>])
                ELSE [i \in 1..Len(hashes) |->
                         IF i \in at THEN [hashes[i] EXCEPT !.v = Append(@, files[k].name)]
                         ELSE hashes[i]])

find_duplicate_hashes(files) ==
    LET Kept(item) == item.k # HashNone /\ Len(item.v) > 1
    IN SelectRows(group_by_hash(files, 1, <<>>), Kept)

\* The names of one directory in sorted order: names are points 0..5, the
\* scorer depends on their distance.
SortedNames ==
    {[k \in 1..Cardinality(dir) |->
         CHOOSE name \in dir : Cardinality({other \in dir : other < name}) = k - 1] :
     dir \in SUBSET (0..5)}

\* iter_pdfs over two base directories
NameLists ==
    {names \in {first \o second : first \in SortedNames, second \in SortedNames} :
        Len(names) <= MaxNames}

Thresholds == {90, 95}

\* fuzz.token_sort_ratio as a symmetric score of two names
token_sort_ratio(a, b) == 100 - 2 * (IF a < b THEN b - a ELSE a - b)

\* process.extract(name, names, scorer=fuzz.token_sort_ratio, limit=5): the
\* five best choices, by score descending and then by position
extract(name, names) ==
    LET Before(j, i) ==
            \/ token_sort_ratio(name, names[j]) > token_sort_ratio(name, names[i])
            \/ token_sort_ratio(name, names[j]) = token_sort_ratio(name, names[i]) /\ j < i
        rank(i) == Cardinality({j \in 1..Len(names) : Before(j, i)}) + 1
    IN [k \in 1..Min(5, Len(names)) |->
           LET i == CHOOSE i \in 1..Len(names) : rank(i) = k
           IN [cand |-> names[i], score |-> token_sort_ratio(name, names[i]), index |-> i]]

\* the test before `continue`, without the comparison of the two names
Skipped_below_threshold_only(name, cand, score, threshold) == score < threshold

\* if cand == name or score < threshold: continue
Skipped(name, cand, score, threshold) == cand = name \/ score < threshold

SimilarPair(score, first, second) == [score |-> score, first |-> first, second |-> second]

\* the inner loop over matches from position k on
RECURSIVE matches_loop(_, _, _, _, _)
matches_loop(name, matches, k, threshold, acc) ==
    IF k > Len(matches) THEN acc
    ELSE LET cand == matches[k].cand
             score == matches[k].score
             pair == <<Min(name, cand), Max(name, cand)>>
         IN matches_loop(name, matches, k + 1, threshold,
                IF Skipped(name, cand, score, threshold) \/ pair \in acc.reported THEN acc
                ELSE [reported |-> acc.reported \cup {pair},
                      similar_pairs |->
                          Append(acc.similar_pairs, SimilarPair(score, pair[1], pair[2]))])

\* the outer loop over names from position i on
RECURSIVE names_loop(_, _, _, _)
names_loop(names, i, threshold, acc) ==
    IF i > Len(names) THEN acc
    ELSE names_loop(names, i + 1, threshold,
            matches_loop(names[i], extract(names[i], names), 1, threshold, acc))

\* sorted(similar_pairs, key=lambda x: x[0], reverse=True), a stable sort
sorted_by_score(similar_pairs) ==
    LET Before(j, i) ==
            \/ similar_pairs[j].score > similar_pairs[i].score
            \/ similar_pairs[j].score = similar_pairs[i].score /\ j < i
        rank(i) == Cardinality({j \in 1..Len(similar_pairs) : Before(j, i)}) + 1
    IN [k \in 1..Len(similar_pairs) |->
           similar_pairs[CHOOSE i \in 1..Len(similar_pairs) : rank(i) = k]]

find_similar_names(names, threshold) ==
    sorted_by_score(
        names_loop(names, 1, threshold, [reported |-> {}, similar_pairs |-> <<>>]).similar_pairs)

InitScan ==
    /\ engines_available = [e \in Engines |-> FALSE]
    /\ zotero_client = FALSE
    /\ extract_pdf_loaded = FALSE
    /\ InitApi /\ InitQueueIdle /\ InitChunkIdle /\ InitFormulasIdle
    /\ sx = NoSearch /\ px = NoBatch /\ zx = NoTags
    /\ dx = [NoScan EXCEPT !.phase = "idle"]

FindDuplicateHashes ==
    /\ dx.phase = "idle"
    /\ \E files \in FileLists :
          dx' = [dx EXCEPT !.phase = "returned", !.fn = "find_duplicate_hashes",
                           !.files = files,
                           !.duplicate_hashes = find_duplicate_hashes(files)]
    /\ UNCHANGED <<apiVars, dispatcherConfig, queueVars, ck, formulaVars, sx, px, zx>>

FindSimilarNames ==
    /\ dx.phase = "idle"
    /\ \E names \in NameLists, threshold \in Thresholds :
          dx' = [dx EXCEPT !.phase = "returned", !.fn = "find_similar_names",
                           !.names = names, !.threshold = threshold,
                           !.similar_names = find_similar_names(names, threshold)]
    /\ UNCHANGED <<apiVars, dispatcherConfig, queueVars, ck, formulaVars, sx, px, zx>>

ScanCallerContinues ==
    /\ dx.phase = "returned"
    /\ dx' = [NoScan EXCEPT !.phase = "idle"]
    /\ UNCHANGED <<apiVars, dispatcherConfig, queueVars, ck, formulaVars, sx, px, zx>>

ScanNext ==
    \/ FindDuplicateHashes
    \/ FindSimilarNames
    \/ ScanCallerContinues

ScanSpec == InitScan /\ [][ScanNext]_vars

----------------------------------------------------------------------------
(* pipeline/extract.py: _process_single_pdf, extract_all_pdfs *)

\* What goes wrong with a document, fixed per document.
PdfFaults ==
    {"none", "extract", "empty", "write_text", "metadata", "chunk", "write_metadata"}

\* A source PDF: its stem (pdf.stem names the outputs) and its fault.
SourcePdf(stem, fault) == [stem |-> stem, fault |-> fault]

\* Documents of one stem share their output paths: where one of them can
\* write the text or the metadata file, so can the others.
SamePathsSameWrites(pdfs) ==
    \A i, j \in 1..Len(pdfs) :
        pdfs[i].stem = pdfs[j].stem =>
            /\ pdfs[i].fault = "write_text" =>
                   pdfs[j].fault \in {"write_text", "extract", "empty"}
            /\ pdfs[i].fault = "write_metadata" =>
                   pdfs[j].fault \in {"write_metadata", "write_text", "extract", "empty"}

PdfBatches ==
    {pdfs \in SeqsUpTo({SourcePdf(stem, fault) : stem \in {"x", "y"}, fault \in PdfFaults},
                       MaxPdfs) : SamePathsSameWrites(pdfs)}

\* text_path.exists() and not overwrite
OutputExists(pdf, overwrite, out_dir) == pdf.stem \in out_dir /\ ~overwrite

PdfSkipped(reason) == [NoPdfResult EXCEPT !.status = "skipped", !.reason = reason]
PdfError(error) == [NoPdfResult EXCEPT !.status = "error", !.error = error]
PdfRaised(error) == [NoPdfResult EXCEPT !.raised = TRUE, !.error = error]

\* _process_single_pdf from extract_pdf up to text_path.write_text:
\* a result, or no result yet and the text file written
ExtractAndWrite(pdf) ==
    IF pdf.fault = "extract" THEN PdfError("extraction failed")
    ELSE IF pdf.fault = "empty" THEN PdfSkipped("empty")
    ELSE IF pdf.fault = "write_text" THEN PdfRaised("text file not writable")
    ELSE NoPdfResult

\* _process_single_pdf after text_path.write_text: metadata, chunks,
\* _write_metadata, return
MetadataAndChunks(pdf) ==
    IF pdf.fault = "write_metadata" THEN PdfRaised("metadata file not writable")
    ELSE [NoPdfResult EXCEPT
             !.status = "processed",
             !.metadata_error = IF pdf.fault = "metadata" THEN "no metadata" ELSE "",
             !.chunks = IF pdf.fault = "chunk" THEN 0 ELSE 1,
             !.chunk_error = IF pdf.fault = "chunk" THEN "chunking failed" ELSE ""]

\* _process_single_pdf run without interruption: its result and the text
\* directory after it
_process_single_pdf(pdf, overwrite, out_dir) ==
    IF OutputExists(pdf, overwrite, out_dir)
    THEN [result |-> PdfSkipped("exists"), out_dir |-> out_dir]
    ELSE IF ExtractAndWrite(pdf) # NoPdfResult
         THEN [result |-> ExtractAndWrite(pdf), out_dir |-> out_dir]
    ELSE [result |-> MetadataAndChunks(pdf), out_dir |-> out_dir \cup {pdf.stem}]

\* handle_result(pdf, result), the pdf named by its position in the batch
handle_result(summary, pdf, outcome) ==
    IF outcome.status = "processed"
    THEN [summary EXCEPT
             !.processed = @ + 1,
             !.chunks = @ + outcome.chunks,
             !.metadata_errors = IF outcome.metadata_error # "" THEN @ + 1 ELSE @,
             !.chunk_errors = IF outcome.chunk_error # ""
                              THEN Append(@, [pdf |-> pdf, error |-> outcome.chunk_error])
                              ELSE @]
    ELSE IF outcome.status = "skipped" THEN [summary EXCEPT !.skipped = @ + 1]
    ELSE IF outcome.status = "error"
         THEN [summary EXCEPT !.errors = Append(@, [pdf |-> pdf, error |-> outcome.error])]
    ELSE summary

\* the sequential loop from document k on: the summary, or that a call raised
RECURSIVE sequential_run(_, _, _, _, _)
sequential_run(pdfs, k, overwrite, out_dir, summary) ==
    IF k > Len(pdfs) THEN [raised |-> FALSE, summary |-> summary]
    ELSE LET done == _process_single_pdf(pdfs[k], overwrite, out_dir)
         IN IF done.result.raised THEN [raised |-> TRUE, summary |-> summary]
            ELSE sequential_run(pdfs, k + 1, overwrite, done.out_dir,
                                handle_result(summary, k, done.result))

\* The batch of document k: batched(pdfs, batch_size) if 0 < batch_size < total.
BatchOf(run, k) ==
    IF run.batch_size > 0 /\ run.batch_size < Len(run.pdfs)
    THEN (k - 1) \div run.batch_size ELSE 0

Task(at, outcome) == [at |-> at, result |-> outcome]

\* Task k may start: the batches before its own are handled; in the pool the
\* tasks submitted before it have started and a worker is free; without a pool
\* every document before it is handled.
MayStart(run, k) ==
    /\ run.tasks[k].at = "queued"
    /\ \A j \in 1..Len(run.pdfs) :
          BatchOf(run, j) < BatchOf(run, k) => run.tasks[j].at = "handled"
    /\ IF run.parallelism = 0
       THEN \A j \in 1..(k - 1) : run.tasks[j].at = "handled"
       ELSE /\ \A j \in 1..(k - 1) : run.tasks[j].at # "queued"
            /\ Cardinality({j \in 1..Len(run.pdfs) :
                               run.tasks[j].at \in {"started", "written"}}) < run.parallelism

InitBatch ==
    /\ engines_available = [e \in Engines |-> FALSE]
    /\ zotero_client = FALSE
    /\ extract_pdf_loaded = FALSE
    /\ InitApi /\ InitQueueIdle /\ InitChunkIdle /\ InitFormulasIdle
    /\ sx = NoSearch /\ dx = NoScan /\ zx = NoTags
    /\ \E out_dir \in SUBSET {"x", "y"} :
          px = [NoBatch EXCEPT !.phase = "idle", !.out_dir = out_dir]

\* extract_all_pdfs(batch_size, overwrite, parallelism) up to the first batch
ExtractAllPdfsCalled ==
    /\ px.phase = "idle"
    /\ \E pdfs \in PdfBatches, overwrite \in BOOLEAN, batch_size \in {0, 1},
          parallelism \in {0} \cup 2..MaxWorkers :
          px' = [px EXCEPT
                    !.phase = IF pdfs = <<>> THEN "returned" ELSE "running",
                    !.pdfs = pdfs, !.overwrite = overwrite, !.batch_size = batch_size,
                    !.parallelism = parallelism,
                    !.out_dir_before = px.out_dir,
                    !.tasks = [k \in 1..Len(pdfs) |-> Task("queued", NoPdfResult)],
                    !.summary = [NoBatchSummary EXCEPT !.total = Len(pdfs)]]
    /\ UNCHANGED <<apiVars, dispatcherConfig, queueVars, ck, formulaVars, sx, dx, zx>>

\* _process_single_pdf starts for a document and tests whether its text exists
TaskChecksOutput ==
    /\ px.phase = "running"
    /\ \E k \in 1..Len(px.pdfs) :
          /\ MayStart(px, k)
          /\ px' = [px EXCEPT !.tasks[k] =
                       IF OutputExists(px.pdfs[k], px.overwrite, px.out_dir)
                       THEN Task("done", PdfSkipped("exists"))
                       ELSE Task("started", NoPdfResult)]
    /\ UNCHANGED <<apiVars, dispatcherConfig, queueVars, ck, formulaVars, sx, dx, zx>>

\* extract_pdf and text_path.write_text
TaskWritesText ==
    /\ px.phase = "running"
    /\ \E k \in 1..Len(px.pdfs) :
          /\ px.tasks[k].at = "started"
          /\ px' = IF ExtractAndWrite(px.pdfs[k]) # NoPdfResult
                   THEN [px EXCEPT !.tasks[k] = Task("done", ExtractAndWrite(px.pdfs[k]))]
                   ELSE [px EXCEPT !.tasks[k] = Task("written", NoPdfResult),
                                   !.out_dir = @ \cup {px.pdfs[k].stem}]
    /\ UNCHANGED <<apiVars, dispatcherConfig, queueVars, ck, formulaVars, sx, dx, zx>>

\* metadata, chunks, _write_metadata and the return of _process_single_pdf
TaskFinishes ==
    /\ px.phase = "running"
    /\ \E k \in 1..Len(px.pdfs) :
          /\ px.tasks[k].at = "written"
          /\ px' = [px EXCEPT !.tasks[k] = Task("done", MetadataAndChunks(px.pdfs[k]))]
    /\ UNCHANGED <<apiVars, dispatcherConfig, queueVars, ck, formulaVars, sx, dx, zx>>

\* handle_result for a finished document; in the pool an exception of the
\* task is turned into an error result first
ResultHandled ==
    /\ px.phase = "running"
    /\ \E k \in 1..Len(px.pdfs) :
          /\ px.tasks[k].at = "done"
          /\ px.parallelism > 0 \/ ~px.tasks[k].result.raised
          /\ LET outcome == IF px.tasks[k].result.raised
                            THEN PdfError(px.tasks[k].result.error)
                            ELSE px.tasks[k].result
             IN px' = [px EXCEPT !.tasks[k].at = "handled",
                                 !.summary = handle_result(@, k, outcome)]
    /\ UNCHANGED <<apiVars, dispatcherConfig, queueVars, ck, formulaVars, sx, dx, zx>>

\* without a pool an exception of _process_single_pdf leaves extract_all_pdfs
BatchRaises ==
    /\ px.phase = "running"
    /\ px.parallelism = 0
    /\ \E k \in 1..Len(px.pdfs) : px.tasks[k].at = "done" /\ px.tasks[k].result.raised
    /\ px' = [px EXCEPT !.phase = "raised"]
    /\ UNCHANGED <<apiVars, dispatcherConfig, queueVars, ck, formulaVars, sx, dx, zx>>

\* every batch is handled: return summary
BatchReturns ==
    /\ px.phase = "running"
    /\ \A k \in 1..Len(px.pdfs) : px.tasks[k].at = "handled"
    /\ px' = [px EXCEPT !.phase = "returned"]
    /\ UNCHANGED <<apiVars, dispatcherConfig, queueVars, ck, formulaVars, sx, dx, zx>>

BatchNext ==
    \/ ExtractAllPdfsCalled
    \/ TaskChecksOutput
    \/ TaskWritesText
    \/ TaskFinishes
    \/ ResultHandled
    \/ BatchRaises
    \/ BatchReturns

BatchSpec == InitBatch /\ [][BatchNext]_vars

----------------------------------------------------------------------------
(* core/zotero_client.py: mark_as_processed, mark_as_error;
   tools/run_zotero_queue.py: set_tags, main *)

TAG_TO_PROCESS == "/to_process"
TAG_PROCESSED == "/processed"
TAG_ERROR == "/error"

\* The tags of the model in the order of sorted(): the three queue tags and a
\* tag of the user.
TagOrder == <<TAG_ERROR, TAG_PROCESSED, TAG_TO_PROCESS, "topic">>

\* An item's tags are item['data']['tags'], a list of tags in library order.
HasTag(tags, tag) == \E k \in 1..Len(tags) : tags[k] = tag

\* [tag for tag in tags if tag not in remove]
RECURSIVE without(_, _)
without(tags, remove) ==
    IF tags = <<>> THEN <<>>
    ELSE IF tags[1] \in remove THEN without(Tail(tags), remove)
    ELSE <<tags[1]>> \o without(Tail(tags), remove)

\* the tag appended if it is not already present
with_tag(tags, tag) == IF HasTag(tags, tag) THEN tags ELSE Append(tags, tag)

\* the tag list mark_as_processed sends to update_item
processed_tags(tags) == with_tag(without(tags, {TAG_TO_PROCESS}), TAG_PROCESSED)

\* the tag list mark_as_error sends to update_item
error_tags(tags) == with_tag(without(tags, {TAG_TO_PROCESS}), TAG_ERROR)

\* set_tags(zot, item, remove, add): sorted((tags - remove) | add)
set_tags(tags, remove, add) ==
    without(TagOrder, {tag \in {TagOrder[t] : t \in 1..Len(TagOrder)} :
                          tag \notin add /\ (~HasTag(tags, tag) \/ tag \in remove)})

\* What main does with one queued item: no PDF attachment, PDF file not
\* found, processed, or process_pdf raised.
ToolOutcomes == {"no_pdf", "missing_file", "ok", "err"}

tool_tags(tags, outcome) ==
    IF outcome \in {"no_pdf", "missing_file"} THEN set_tags(tags, {}, {TAG_ERROR})
    ELSE IF outcome = "ok" THEN set_tags(tags, {TAG_TO_PROCESS, TAG_ERROR}, {TAG_PROCESSED})
    ELSE set_tags(tags, {TAG_TO_PROCESS}, {TAG_ERROR})

TagItems == 1..MaxTagItems

InitTags ==
    /\ engines_available = [e \in Engines |-> FALSE]
    /\ zotero_client = FALSE
    /\ extract_pdf_loaded = FALSE
    /\ InitApi /\ InitQueueIdle /\ InitChunkIdle /\ InitFormulasIdle
    /\ sx = NoSearch /\ dx = NoScan /\ px = NoBatch
    /\ \E tags \in [TagItems -> {<<>>, <<TAG_TO_PROCESS>>, <<"topic", TAG_TO_PROCESS>>}] :
          zx = [NoTags EXCEPT !.phase = "idle", !.tags = tags]

\* client.mark_as_processed(item_key); update_item may raise, then False is
\* returned and the library keeps its tags
MarkAsProcessed ==
    /\ zx.phase = "idle"
    /\ \E item \in TagItems, ok \in BOOLEAN :
          zx' = [zx EXCEPT !.op = "mark_as_processed", !.ok = ok,
                           !.marked = IF ok THEN {item} ELSE {},
                           !.tags[item] = IF ok THEN processed_tags(@) ELSE @]
    /\ UNCHANGED <<apiVars, dispatcherConfig, queueVars, ck, formulaVars, sx, dx, px>>

\* client.mark_as_error(item_key, error_message)
MarkAsError ==
    /\ zx.phase = "idle"
    /\ \E item \in TagItems, ok \in BOOLEAN :
          zx' = [zx EXCEPT !.op = "mark_as_error", !.ok = ok,
                           !.marked = IF ok THEN {item} ELSE {},
                           !.tags[item] = IF ok THEN error_tags(@) ELSE @]
    /\ UNCHANGED <<apiVars, dispatcherConfig, queueVars, ck, formulaVars, sx, dx, px>>

\* the user queues an item again: /to_process is added in Zotero
ItemRequeued ==
    /\ zx.phase = "idle"
    /\ \E item \in TagItems :
          /\ ~HasTag(zx.tags[item], TAG_TO_PROCESS)
          /\ zx' = [zx EXCEPT !.op = "requeue", !.ok = TRUE, !.marked = {},
                              !.tags[item] = Append(@, TAG_TO_PROCESS)]
    /\ UNCHANGED <<apiVars, dispatcherConfig, queueVars, ck, formulaVars, sx, dx, px>>

\* main() of run_zotero_queue.py with its default tags: every item with
\* /to_process is handled and its tags are set
QueueToolRuns ==
    /\ zx.phase = "idle"
    /\ LET queued == {item \in TagItems : HasTag(zx.tags[item], TAG_TO_PROCESS)} IN
       \E outcome \in [queued -> ToolOutcomes] :
          zx' = [zx EXCEPT !.op = "run_zotero_queue", !.ok = TRUE, !.marked = queued,
                           !.tags = [item \in TagItems |->
                                        IF item \in queued
                                        THEN tool_tags(zx.tags[item], outcome[item])
                                        ELSE zx.tags[item]]]
    /\ UNCHANGED <<apiVars, dispatcherConfig, queueVars, ck, formulaVars, sx, dx, px>>

TagNext ==
    \/ MarkAsProcessed
    \/ MarkAsError
    \/ ItemRequeued
    \/ QueueToolRuns

TagSpec == InitTags /\ [][TagNext]_vars

----------------------------------------------------------------------------
(* Claims about analyze_document *)

\* The text-layer probe of the analysed document gave text whose trimmed
\* length is above the threshold.
ProbeTextSufficient ==
    /\ engines_available[PYMUPDF]
    /\ extract_pdf_loaded
    /\ call.pdf.kind = "pages"
    /\ Len(strip(join(<<"\n">>, NonBlank(call.pdf.pages)))) > MinTextLen

\* The tag lookup of the analysed document gave tags, one of them scientific.
ScientificHint ==
    /\ zotero_client
    /\ call.key # None
    /\ call.lookup.kind = "item"
    /\ call.lookup.tags \cap scientific_tags # {}

RouteIs(e, c) == route.route.engine = e /\ route.route.confidence = c

\* C1: analyze_document follows the routing precedence: sufficient text-layer
\* content gives {PYMUPDF, 0.95} whatever the hints and the other engines;
\* otherwise a scientific tag gives {NOUGAT, 0.85} when Nougat is available,
\* else {MATHPIX, 0.80} when Mathpix is; otherwise {TESSERACT, 0.70} when
\* Tesseract is available.
C1_RoutingPrecedence ==
    pc = "analyzed" =>
        /\ ~route.raised
        /\ ProbeTextSufficient => RouteIs(PYMUPDF, 95)
        /\ (~ProbeTextSufficient /\ ScientificHint /\ engines_available[NOUGAT])
              => RouteIs(NOUGAT, 85)
        /\ (~ProbeTextSufficient /\ ScientificHint /\ ~engines_available[NOUGAT]
              /\ engines_available[MATHPIX]) => RouteIs(MATHPIX, 80)
        /\ (~ProbeTextSufficient
              /\ (~ScientificHint
                   \/ (~engines_available[NOUGAT] /\ ~engines_available[MATHPIX]))
              /\ engines_available[TESSERACT]) => RouteIs(TESSERACT, 70)

\* A scientific item without sufficient text, with only the cloud engine of the
\* two scientific engines and with Tesseract available, was routed to Mathpix.
C1_Witness ==
    /\ pc = "analyzed"
    /\ ~ProbeTextSufficient
    /\ ScientificHint
    /\ ~engines_available[NOUGAT]
    /\ engines_available[MATHPIX]
    /\ engines_available[TESSERACT]
    /\ engines_available[PYMUPDF]
    /\ call.pdf.kind = "pages" /\ Len(call.pdf.pages) = MaxPages
    /\ RouteIs(MATHPIX, 80)

NoEngineAvailable == \A e \in Engines : ~engines_available[e]

\* C2: analyze_document always returns a DocumentRoute and never raises, also
\* when the text-layer probe or the tag lookup fails; with no engine available
\* the route is {PYMUPDF, 0.0, "No processing engine available"}.
C2_AnalyzeAlwaysReturnsRoute ==
    pc = "analyzed" =>
        /\ ~route.raised
        /\ route.route.engine \in Engines
        /\ NoEngineAvailable =>
              route.route = DocumentRoute(PYMUPDF, 0, ERROR_NO_ENGINE_AVAILABLE)

\* Both the text-layer probe and the tag lookup raised, and a route came back.
C2_Witness ==
    /\ pc = "analyzed"
    /\ engines_available[PYMUPDF] /\ extract_pdf_loaded
    /\ call.pdf.kind = "raise"
    /\ zotero_client /\ call.key # None /\ call.lookup.kind = "raise"
    /\ route.route.engine \in Engines

\* C3: the degenerate route is returned only if no engine is available: with
\* at least one engine available the route names an available engine and has
\* confidence at least 0.50.
C3_DegenerateOnlyWithoutEngines ==
    (pc = "analyzed" /\ ~NoEngineAvailable) =>
        /\ ~route.raised
        /\ route.route.engine \in Engines
        /\ engines_available[route.route.engine]
        /\ route.route.confidence >= 50

----------------------------------------------------------------------------
(* Claims about process_document *)

\* The engine of the call in progress failed with an exception: a missing
\* dependency, an I/O error or an error of the engine itself.
EngineRaised ==
    \/ call.route.engine = PYMUPDF /\ (~extract_pdf_loaded \/ call.env.kind = "raise")
    \/ call.route.engine = TESSERACT /\ call.env.kind \in {"import_error", "raise"}
    \/ call.route.engine = NOUGAT
         /\ call.env.kind \in {"import_error", "cached_unreadable", "cli_raise"}

\* C4: process_document never propagates an exception: when the chosen engine
\* raises, it returns a ProcessingResult with success=false, empty text, a
\* non-empty error_message and engine_used = route.engine.
C4_EngineFailuresAreWrapped ==
    (pc = "returned" /\ EngineRaised) =>
        /\ ~result.raised
        /\ ~result.result.success
        /\ result.result.text = <<>>
        /\ result.result.error_message \notin {None, ""}
        /\ result.result.engine_used = call.route.engine

\* The engine of the call in progress returned a text.
EngineReturnedText ==
    \/ call.route.engine = PYMUPDF /\ extract_pdf_loaded /\ call.env.kind = "pages"
    \/ call.route.engine = TESSERACT /\ call.env.kind = "pages"
    \/ call.route.engine = NOUGAT
         /\ call.env.kind \in {"cached_mmd", "cached_md", "cli_output"}

\* That text: the text layers of the pages that have one, the OCR text of the
\* pages, or the markdown file Nougat wrote.
EngineText ==
    IF call.route.engine = PYMUPDF THEN join(<<"\n">>, NonBlank(call.env.pages))
    ELSE IF call.route.engine = TESSERACT THEN join(<<"\n", "\n">>, call.env.pages)
    ELSE call.env.text

\* C5: the result of process_document has success = true if and only if the
\* engine returned text that is non-empty after trimming, for each engine,
\* also when the Nougat output comes from an existing .mmd/.md file.
C5_SuccessIffNonEmptyText ==
    pc = "returned" =>
        (result.result.success <=> (EngineReturnedText /\ strip(EngineText) # <<>>))

\* C6: every engine call of process_document is bounded by a timeout: while a
\* call is in progress, one of the two steps that end it can be taken, the
\* engine's response or the expiry of its timeout, even if the engine never
\* responds; and a call that timed out gives success=false.
C6_EngineCallsReturn ==
    /\ pc = "running" => (CanReturn \/ CanTimeOut)
    /\ (pc = "returned" /\ call.env.kind = "hang") => ~result.result.success

----------------------------------------------------------------------------
(* Claims about process_zotero_queue *)

\* The positions in marks of the requests made for an item.
MarksOf(item_key) == {j \in 1..Len(marks) : marks[j].item = item_key}

\* The positions in results of the outcomes recorded for an item.
ResultsOf(item_key) == {j \in 1..Len(results) : results[j][1] = item_key}

\* C7: process_zotero_queue handles every item it pulled: when it returns, the
\* loop has gone past every pulled item, and the returned list holds one
\* (item_key, ProcessingResult) outcome for every pulled item, in pulling order.
C7_OneOutcomePerPulledItem ==
    qpc = "returned" =>
       /\ idx = Len(items)
       /\ Len(results) = Len(items)
       /\ \A i \in 1..Len(items) : results[i][1] = items[i]

\* C8: for every item the queue has finished, exactly one of mark_as_processed /
\* mark_as_error was requested: mark_as_processed if and only if
\* process_document returned success = true, otherwise mark_as_error with a
\* non-empty failure reason.
C8_OneMarkWithReasonPerItem ==
    \A i \in 1..idx :
       /\ Cardinality(MarksOf(items[i])) = 1
       /\ \A j \in MarksOf(items[i]) :
             /\ marks[j].op = "processed" <=>
                   \E k \in ResultsOf(items[i]) : results[k][2].success
             /\ marks[j].op = "error" => marks[j].message \notin {None, ""}

\* C9: after the queue has finished an item, no file staged for that item is
\* left in the temporary directory, whatever the item's outcome.
C9_NoStagedFileAfterItem ==
    \A i \in 1..idx : OutputPath(items[i]) \notin tmp_processing

----------------------------------------------------------------------------
(* Claims about AdaptiveTextChunker.chunk *)

\* C10: the chunks returned by chunk have strictly increasing start offsets:
\* every chunk starts after the chunk before it.
C10_StartsStrictlyIncrease ==
    ck.phase = "returned" =>
       \A i \in 1..(Len(ck.chunks) - 1) : ck.chunks[i + 1].start > ck.chunks[i].start

\* Adjacent chunks i, i + 1 of the call in progress.
AdjacentChunks == 1..(Len(ck.chunks) - 1)

\* C11: adjacent chunks overlap by at most the effective overlap:
\* C_i.end - C_{i+1}.start <= min(chunk_overlap, chunk_size // 3).
C11_OverlapAtMostEffective ==
    \A i \in AdjacentChunks :
       ck.chunks[i].end - ck.chunks[i + 1].start
          <= Min(ck.cfg.chunk_overlap, ck.chunk_size \div 3)

\* C11 happens: a returned chunk sequence in which two adjacent chunks share
\* exactly the effective overlap, which is smaller than the configured one.
C11_Witness ==
    /\ ck.phase = "returned"
    /\ ck.cfg.chunk_overlap > ck.chunk_size \div 3
    /\ \E i \in AdjacentChunks :
          /\ ck.chunks[i].end - ck.chunks[i + 1].start = ck.chunk_size \div 3
          /\ ck.chunks[i].end - ck.chunks[i + 1].start >= 1

\* C12: chunk terminates: while the loop runs the window start is inside the
\* text, every iteration moves it strictly forward, and the loop never makes
\* more than len(text) iterations, whatever chunk_overlap and min_chunk_size.
C12_ChunkTerminates ==
    /\ [](ck.phase = "loop" => ck.start < Len(ck.normalized))
    /\ [](ck.iterations <= Len(ck.text))
    /\ [][(ck.phase = "loop" /\ ck'.phase = "loop") => ck'.start > ck.start]_vars

\* C12 happens: a call has returned after as many iterations as the text has
\* characters, with a configured overlap at or above the chunk size.
C12_Witness ==
    /\ ck.phase = "returned"
    /\ ck.cfg.chunk_overlap >= ck.chunk_size
    /\ ck.iterations >= 2
    /\ ck.iterations = Len(ck.text)

\* The offsets of the trimmed text inside the normalized text.
TrimmedStart ==
    LET keep == {p \in 1..Len(ck.normalized) : ck.normalized[p] \notin Whitespace} IN
    (CHOOSE p \in keep : \A q \in keep : p <= q) - 1

TrimmedEnd ==
    LET keep == {p \in 1..Len(ck.normalized) : ck.normalized[p] \notin Whitespace} IN
    CHOOSE p \in keep : \A q \in keep : q <= p

\* C13: the chunks returned for a text with content cover its trimmed text:
\* the first chunk starts at the first character of the trimmed text, the last
\* chunk ends at its last character, and between adjacent chunks no gap is
\* larger than the configured overlap: C_{i+1}.start - C_i.end <= chunk_overlap.
C13_CoversTrimmedText ==
    (ck.phase = "returned" /\ strip(ck.normalized) # <<>>) =>
       /\ ck.chunks # <<>>
       /\ ck.chunks[1].start = TrimmedStart
       /\ ck.chunks[Len(ck.chunks)].end = TrimmedEnd
       /\ \A i \in AdjacentChunks :
             ck.chunks[i + 1].start - ck.chunks[i].end <= ck.cfg.chunk_overlap

\* C14: a text with content that is shorter than min_chunk_size comes back as
\* exactly one chunk, whose text is the trimmed input.
C14_ShortTextIsOneChunk ==
    (/\ ck.phase = "returned"
     /\ strip(ck.text) # <<>>
     /\ Len(ck.text) < ck.cfg.min_chunk_size) =>
       /\ Len(ck.chunks) = 1
       /\ ck.chunks[1].text = strip(ck.text)

\* C15: every chunk record is well formed: the i-th chunk has index i counted
\* from 0, its text is non-empty and has no leading or trailing whitespace, it
\* is normalized[start:end], and it is not longer than the effective chunk size.
C15_ChunksWellFormed ==
    \A i \in 1..Len(ck.chunks) :
       LET c == ck.chunks[i] IN
          /\ c.index = i - 1
          /\ c.text # <<>>
          /\ strip(c.text) = c.text
          /\ 0 <= c.start /\ c.start <= c.end /\ c.end <= Len(ck.normalized)
          /\ c.text = Slice(ck.normalized, c.start, c.end)
          /\ c.end - c.start = Len(c.text)
          /\ Len(c.text) <= ck.chunk_size

\* C15 happens: a call on a text with "\r\n" has returned several chunks, one
\* of them trimmed at both ends of its window.
C15_Witness ==
    /\ ck.phase = "returned"
    /\ ck.normalized # ck.text
    /\ Len(ck.chunks) >= 2
    /\ \E i \in 1..Len(ck.chunks) :
          LET c == ck.chunks[i] IN
             /\ c.start >= 1 /\ ck.normalized[c.start] \in Whitespace
             /\ c.end < Len(ck.normalized) /\ ck.normalized[c.end + 1] \in Whitespace

\* Offset p of the normalized text lies in [start, end) of a chunk appended so far.
Covered(p) == \E i \in 1..Len(ck.chunks) : ck.chunks[i].start <= p /\ p < ck.chunks[i].end

\* The offsets of the normalized text that hold a non-whitespace character.
ContentOffsets == {p \in 0..(Len(ck.normalized) - 1) : ck.normalized[p + 1] \notin Whitespace}

\* C29: chunk never drops content: every non-whitespace character position of
\* the normalized text lies in [start, end) of at least one returned chunk;
\* while the loop runs this holds for every position before the window start.
C29_NoContentDropped ==
    /\ ck.phase = "returned" => \A p \in ContentOffsets : Covered(p)
    /\ ck.phase = "loop" => \A p \in ContentOffsets : p < ck.start => Covered(p)

\* C29 happens: a call has returned several chunks for a text whose windows
\* were trimmed, so that a whitespace position between two chunks is in none.
C29_Witness ==
    /\ ck.phase = "returned"
    /\ Len(ck.chunks) >= 2
    /\ Cardinality(ContentOffsets) >= 3
    /\ \E p \in 0..(Len(ck.normalized) - 1) :
          /\ ~Covered(p)
          /\ \E q, r \in ContentOffsets : q < p /\ p < r

----------------------------------------------------------------------------
(* Claims about formula extraction *)

\* The records of the returned list for a normalized body and a kind.
RecordsOf(latex, kind) ==
    {i \in 1..Len(ex.formulas) : ex.formulas[i].latex = latex /\ ex.formulas[i].type = kind}

\* The placeholders in the returned text.
PlaceholdersIn(t) == {i \in 1..Len(t) : t[i].ch = "FORMULA_"}

\* C16: with deduplicate=True extract_formulas_from_md returns exactly one
\* record for every distinct (normalized body, kind) pair it matched and no
\* other record, it puts one placeholder FORMULA_<hash> into the text for every
\* matched occurrence, and records of the same normalized body have the same hash.
C16_OneRecordPerDistinctFormula ==
    (ex.phase = "returned" /\ ex.deduplicate) =>
       /\ \A c \in 1..Len(ex.calls) :
             Cardinality(RecordsOf(norm_formula(ex.calls[c].raw_latex), ex.calls[c].kind)) = 1
       /\ \A i \in 1..Len(ex.formulas) :
             \E c \in 1..Len(ex.calls) :
                /\ ex.formulas[i].latex = norm_formula(ex.calls[c].raw_latex)
                /\ ex.formulas[i].type = ex.calls[c].kind
       /\ Cardinality(PlaceholdersIn(ex.replaced)) = Len(ex.calls)
       /\ \A i, j \in 1..Len(ex.formulas) :
             ex.formulas[i].latex = ex.formulas[j].latex =>
                ex.formulas[i].hash = ex.formulas[j].hash

----------------------------------------------------------------------------
(* Claims about extract_all_formulas *)

\* C17: in the catalog log written by one extract_all_formulas run with
\* deduplicate=True no two rows share the same (doc_id, hash, type) triple,
\* whatever *.md and *.mmd files the markdown directory holds.
C17_CatalogTriplesUnique ==
    (fx.phase = "returned" /\ fx.deduplicate /\ fx.md_files # <<>>) =>
        \A i, j \in 1..Len(fx.metadata_file) :
            (/\ fx.metadata_file[i].doc_id = fx.metadata_file[j].doc_id
             /\ fx.metadata_file[i].hash = fx.metadata_file[j].hash
             /\ fx.metadata_file[i].type = fx.metadata_file[j].type) => i = j

\* The run that has just returned ran on what the run before it ran on.
UnchangedRerun ==
    /\ fx.runs = 2
    /\ fx.previous.markdown_dir = fx.listed
    /\ fx.previous.deduplicate = fx.deduplicate
    /\ fx.previous.outcomes = fx.outcomes

\* C18: every extract_all_formulas run rewrites the catalog log from scratch,
\* so the log holds the rows of the last run and nothing else, and a second
\* run on an unchanged markdown set leaves the same catalog (same rows, same
\* order) and the same placeholder text files.
C18_RunRewritesCatalog ==
    (fx.phase = "returned" /\ fx.runs >= 1) =>
        /\ fx.metadata_file = fx.written
        /\ UnchangedRerun =>
              /\ fx.metadata_file = fx.previous.metadata_file
              /\ fx.text_dir = fx.previous.text_dir

\* The files of the run that failed so far, by their position in md_files.
FailedFiles == {i \in 1..Len(fx.outcomes) : fx.outcomes[i] # "processed"}

\* The error entries the failed files of the run account for, in order.
ExpectedErrors ==
    LET upto[k \in 0..Len(fx.outcomes)] ==
            IF k = 0 THEN <<>>
            ELSE IF fx.outcomes[k] = "extract_error" THEN Append(upto[k - 1], fx.md_files[k])
            ELSE IF fx.outcomes[k] = "write_error"
                 THEN Append(upto[k - 1], OutFile(fx.md_files[k]))
            ELSE upto[k - 1]
    IN upto[Len(fx.outcomes)]

\* C19: in extract_all_formulas a file whose extraction or text write fails
\* adds exactly one entry to summary["errors"] and no row to the catalog, and
\* the run goes on with the next file; when the run ends,
\* processed + len(errors) = total and
\* processed = documents_with_formulas + documents_without_formulas.
C19_FailedFileIsSkipped ==
    (fx.phase \in {"running", "returned"}) =>
        /\ fx.summary.errors = ExpectedErrors
        /\ \A i \in FailedFiles : \A r \in 1..Len(fx.metadata_file) :
              fx.metadata_file[r].source # fx.md_files[i]
        /\ fx.summary.processed = Len(fx.outcomes) - Cardinality(FailedFiles)
        /\ fx.phase = "returned" =>
              /\ Len(fx.outcomes) = fx.summary.total
              /\ fx.summary.total = Len(fx.md_files)
              /\ fx.summary.processed + Len(fx.summary.errors) = fx.summary.total
              /\ fx.summary.processed =
                    fx.summary.documents_with_formulas
                    + fx.summary.documents_without_formulas

\* C19 witness: a run has ended in which one file could not be read, one text
\* file could not be written, and the file after a failed one was processed and
\* put rows into the catalog.
C19_Witness ==
    /\ fx.phase = "returned"
    /\ \E i, j \in FailedFiles :
          fx.outcomes[i] = "extract_error" /\ fx.outcomes[j] = "write_error"
    /\ \E i \in FailedFiles : i < Len(fx.outcomes) /\ fx.outcomes[i + 1] = "processed"
    /\ fx.metadata_file # <<>>
    /\ Len(fx.summary.errors) = 2

----------------------------------------------------------------------------
(* Claims about create_formula_index *)

\* The rows of the lines of the log that json.loads can parse, in log order.
ParseableRows ==
    LET upto[k \in 0..Len(ix.metadata_file)] ==
            IF k = 0 THEN <<>>
            ELSE IF ix.metadata_file[k].json \in {"dict", "list"}
                 THEN Append(upto[k - 1], ix.metadata_file[k].row)
            ELSE upto[k - 1]
    IN upto[Len(ix.metadata_file)]

\* The rows of the tokens table that hold the pair (token, formula_id).
TokenRowsOf(db, token, formula_id) ==
    {i \in 1..Len(db.tokens) :
        db.tokens[i].token = token /\ db.tokens[i].formula_id = formula_id}

\* The index store holds exactly the build of the rows `rows`.
HoldsExactly(db, rows) ==
    /\ db.tables
    /\ db.formulas = [k \in 1..Len(rows) |-> IndexRow(k, rows[k])]
    /\ \A i \in 1..Len(db.tokens) :
          /\ Cardinality(TokenRowsOf(db, db.tokens[i].token, db.tokens[i].formula_id)) = 1
          /\ \E k \in 1..Len(db.formulas) :
                /\ db.formulas[k].id = db.tokens[i].formula_id
                /\ \E t \in 1..Len(tokenize_latex(db.formulas[k].latex)) :
                      tokenize_latex(db.formulas[k].latex)[t] = db.tokens[i].token
    /\ \A k \in 1..Len(db.formulas) :
          \A t \in 1..Len(tokenize_latex(db.formulas[k].latex)) :
              TokenRowsOf(db, tokenize_latex(db.formulas[k].latex)[t], db.formulas[k].id) # {}

\* C20: after create_formula_index has completed on an existing catalog log
\* the index store holds exactly the new build: one formulas row per parseable
\* line of the log, in log order, nothing of an earlier build; the pair (t, id)
\* is in the tokens table, once, exactly when t is a token of the latex of
\* row id; every tokens.formula_id is the id of a formulas row;
\* summary["indexed"] and summary["token_mappings"] are the row counts of the
\* two tables.
C20_IndexHoldsExactlyTheBuild ==
    (ix.phase = "returned" /\ ix.exists) =>
        /\ HoldsExactly(ix.committed, ParseableRows)
        /\ ix.summary.indexed = Len(ix.committed.formulas)
        /\ ix.summary.token_mappings = Len(ix.committed.tokens)

----------------------------------------------------------------------------
(* Claims about the formula search *)

\* C21: when the index is missing at search time (the database file is
\* absent, or it is present without the formulas and tokens tables), each of
\* search_by_symbol, search_by_pattern and search_formulas returns an empty
\* result and does not raise.
C21_MissingIndexGivesEmptyResult ==
    (sx.phase = "returned" /\ (~sx.file \/ ~sx.db.tables)) =>
        (~sx.outcome.raised /\ sx.outcome.results = <<>>)

\* The symbol is among the tokens of the latex.
HasSymbol(latex, symbol) ==
    \E t \in 1..Len(tokenize_latex(latex)) : tokenize_latex(latex)[t] = symbol

\* C22: every record search_formulas(symbol=s, contains=p) returns has s among
\* the tokens of its latex and a latex matching p; if no indexed formula
\* contains s the result is empty.
C22_SymbolThenPattern ==
    (/\ sx.phase = "returned" /\ sx.fn = "search_formulas"
     /\ sx.file /\ sx.db.tables
     /\ sx.symbol # NoArg /\ sx.contains # NoArg) =>
        /\ ~sx.outcome.raised
        /\ \A k \in 1..Len(sx.outcome.results) :
              /\ HasSymbol(sx.outcome.results[k].latex, sx.symbol)
              /\ re_search(sx.contains, sx.outcome.results[k].latex)
        /\ symbol_hashes(sx.db, sx.symbol) = {} => sx.outcome.results = <<>>

\* The records of the rows a pattern search has to return: the rows of the
\* catalog, those with the symbol if one is given, that match the pattern, in
\* catalog order, the first `limit` of them.
FirstMatches ==
    LET Candidate(row) ==
            /\ sx.symbol # NoArg => HasSymbol(row.latex, sx.symbol)
            /\ re_search(sx.contains, row.latex)
        matching == SelectRows(sx.db.formulas, Candidate)
    IN [k \in 1..Min(sx.limit, Len(matching)) |-> SearchRecord(matching[k])]

\* C23: for every catalog, pattern and limit >= 0, search_by_pattern(p, limit)
\* and search_formulas(contains=p, limit=limit), with or without a symbol,
\* return exactly the first min(limit, number of matching candidates) matching
\* rows in catalog order, never more than limit records.
C23_FirstLimitMatchesInOrder ==
    (/\ sx.phase = "returned" /\ sx.fn \in {"search_by_pattern", "search_formulas"}
     /\ sx.file /\ sx.db.tables
     /\ sx.contains # NoArg) =>
        /\ ~sx.outcome.raised
        /\ Len(sx.outcome.results) <= sx.limit
        /\ sx.outcome.results = FirstMatches

----------------------------------------------------------------------------
(* Claims about the duplicate scan *)

\* The reported groups that hold the name.
GroupsOf(name) ==
    {g \in 1..Len(dx.duplicate_hashes) :
        \E m \in 1..Len(dx.duplicate_hashes[g].v) : dx.duplicate_hashes[g].v[m] = name}

\* C24: find_duplicate_hashes groups the file names by the digest of the
\* first max_bytes bytes: two readable files with the same first max_bytes
\* bytes are reported in the same group, every reported group has at least two
\* members, and a file that cannot be read is in no group.
C24_SamePrefixSameGroup ==
    (dx.phase = "returned" /\ dx.fn = "find_duplicate_hashes") =>
        /\ \A i, j \in 1..Len(dx.files) :
              (/\ i # j /\ dx.files[i].readable /\ dx.files[j].readable
               /\ Take(dx.files[i].content, PrefixBytes)
                     = Take(dx.files[j].content, PrefixBytes))
              => GroupsOf(dx.files[i].name) \cap GroupsOf(dx.files[j].name) # {}
        /\ \A g \in 1..Len(dx.duplicate_hashes) : Len(dx.duplicate_hashes[g].v) >= 2
        /\ \A i \in 1..Len(dx.files) :
              ~dx.files[i].readable => GroupsOf(dx.files[i].name) = {}

\* C24 witness: two readable files that differ only after the first max_bytes
\* bytes are in one group, next to a file that cannot be read.
C24_Witness ==
    /\ dx.phase = "returned" /\ dx.fn = "find_duplicate_hashes"
    /\ \E i, j \in 1..Len(dx.files) :
          /\ dx.files[i].readable /\ dx.files[j].readable
          /\ dx.files[i].content # dx.files[j].content
          /\ Len(dx.files[i].content) > PrefixBytes
          /\ GroupsOf(dx.files[i].name) \cap GroupsOf(dx.files[j].name) # {}
    /\ \E i \in 1..Len(dx.files) : ~dx.files[i].readable

\* The entries of the result that hold the unordered pair of the two names.
EntriesOf(a, b) ==
    {e \in 1..Len(dx.similar_names) :
        {dx.similar_names[e].first, dx.similar_names[e].second} = {a, b}}

\* C25: every unordered pair of distinct names whose score is at or above
\* the threshold is in the result of find_similar_names, for any number of
\* names.
C25_EverySimilarPairReported ==
    (dx.phase = "returned" /\ dx.fn = "find_similar_names") =>
        \A i, j \in 1..Len(dx.names) :
            (/\ dx.names[i] # dx.names[j]
             /\ token_sort_ratio(dx.names[i], dx.names[j]) >= dx.threshold)
            => EntriesOf(dx.names[i], dx.names[j]) # {}

\* C26: in the list find_similar_names returns each unordered pair is there
\* at most once, no entry pairs a name with itself, every score is at or above
\* the threshold, and the entries are sorted by score, descending; for every
\* list of names, repeated names included.
C26_SimilarPairsWellFormed ==
    (dx.phase = "returned" /\ dx.fn = "find_similar_names") =>
        /\ \A e \in 1..Len(dx.similar_names) :
              /\ dx.similar_names[e].first # dx.similar_names[e].second
              /\ dx.similar_names[e].score >= dx.threshold
              /\ EntriesOf(dx.similar_names[e].first, dx.similar_names[e].second) = {e}
        /\ \A e \in 1..(Len(dx.similar_names) - 1) :
              dx.similar_names[e].score >= dx.similar_names[e + 1].score

\* C26 witness: a list with a repeated name gave entries of different scores.
C26_Witness ==
    /\ dx.phase = "returned" /\ dx.fn = "find_similar_names"
    /\ \E i, j \in 1..Len(dx.names) : i # j /\ dx.names[i] = dx.names[j]
    /\ \E e, f \in 1..Len(dx.similar_names) :
          dx.similar_names[e].score > dx.similar_names[f].score
    /\ \E i, j \in 1..Len(dx.names) :
          token_sort_ratio(dx.names[i], dx.names[j]) < dx.threshold

----------------------------------------------------------------------------
(* Claims about extract_all_pdfs *)

\* The run of the same batch without a pool, from the same text directory.
SequentialRun ==
    sequential_run(px.pdfs, 1, px.overwrite, px.out_dir_before,
                   [NoBatchSummary EXCEPT !.total = Len(px.pdfs)])

\* C27: the counts processed, skipped and len(errors) that extract_all_pdfs
\* returns with a worker pool are the same for every interleaving and
\* completion order of the tasks and equal to those of the sequential run, for
\* every batch of PDFs (their stems need not be distinct) with fixed
\* per-document outcomes.
C27_SummaryIsOrderIndependent ==
    (px.phase = "returned" /\ px.parallelism > 0 /\ ~SequentialRun.raised) =>
        /\ px.summary.processed = SequentialRun.summary.processed
        /\ px.summary.skipped = SequentialRun.summary.skipped
        /\ Len(px.summary.errors) = Len(SequentialRun.summary.errors)

\* C28: no failure of one document makes extract_all_pdfs fail as a whole,
\* with or without a pool: it returns a summary, goes on with the other
\* documents, and processed + skipped + len(errors) = total.
C28_NoDocumentFailsTheBatch ==
    /\ px.phase # "raised"
    /\ px.phase = "returned" =>
          /\ \A k \in 1..Len(px.pdfs) : px.tasks[k].at = "handled"
          /\ px.summary.processed + px.summary.skipped + Len(px.summary.errors)
                = px.summary.total

----------------------------------------------------------------------------
(* Claims about the queue tags *)

\* C30: queue tags are mutually exclusive outcomes: after any sequence of
\* queue runs, successful tag updates and re-queueings no item carries both
\* /processed and /error, and an item that has just been marked carries no
\* /to_process.
C30_TagsMutuallyExclusive ==
    \A item \in TagItems :
       /\ ~(HasTag(zx.tags[item], TAG_PROCESSED) /\ HasTag(zx.tags[item], TAG_ERROR))
       /\ item \in zx.marked => ~HasTag(zx.tags[item], TAG_TO_PROCESS)

====
